---- MODULE Spec2Model ----
(***************************************************************************)
(* The tool-calling chat route (POST /api/chat): one turn of the two-phase *)
(* dialogue with the local inference backend, the web_search tool adapter  *)
(* and the Serper gateway, and the SSE encoding of the final answer.       *)
(*                                                                         *)
(* Two handlers of the repository implement the turn: the one of           *)
(* src/app/api/chat/route.ts (lines 175-308) and the one of                *)
(* src/unnamed/part_001 (lines 112-232).  They differ only in the message  *)
(* sequence of the second inference call.  The variable `handler` says     *)
(* which of the two serves the turn.                                       *)
(*                                                                         *)
(* JavaScript values that may be null/undefined are modelled as sets with  *)
(* at most one element: {} is null/undefined, {v} is the value v.          *)
(***************************************************************************)
EXTENDS Integers, Sequences, FiniteSets, TLC

\* Longest tool_calls array the backend returns in the model.
MaxCalls == 2

VARIABLES
  handler,        \* "route" (route.ts) or "legacy" (part_001)
  pc,             \* "idle", "awaitFirst", "awaitSearch", "awaitSecond", "done"
  messages,       \* const messages = body?.messages ?? []
  model,          \* const model = body?.model ?? default
  sent,           \* the payloads handed to callLocalChat, in order
  firstMessage,   \* firstChoice?.message ?? {}
  toolCalls,      \* Array.isArray(rawToolCalls) ? rawToolCalls : []
  cur,            \* index of the tool call whose search is awaited (0: none)
  toolMessages,   \* const toolMessages: any[]
  searchLog,      \* outbound calls of SerperClient.search, in order
  secondMessage,  \* secondChoice?.message ?? {}
  finalContent,   \* let finalContent: string
  frames,         \* what the stream's start() enqueued, in order
  closed,         \* controller.close() was called
  status,         \* HTTP status of the Response returned (0: none yet)
  respBody,       \* "none", "stream" or the JSON error body
  failure,        \* what threw inside the try block ("none" if nothing)
  answered,       \* how the backend answered each callLocalChat, in order
  searched,       \* how the provider answered each search, in order
  logged,         \* the message of the error given to console.error ("": none)
  envKey,         \* process.env.SERPER_API_KEY ({}: not set)
  envUrl,         \* process.env.SERPER_BASE_URL ({}: not set)
  client,         \* const client = new SerperClient(), once the module ran
  spc,            \* a call of the search module: "idle", "awaitProvider",
                  \* "returned" or "threw"
  sVia,           \* the function called: "adapter" (runWebSearch) or
                  \* "gateway" (SerperClient.search)
  sQuery,         \* its query argument
  sMax,           \* its maxResults argument
  outbound,       \* the requests fetch sent to the provider, in order
  sResp,          \* what the provider answered
  sResult,        \* the value the call resolved to
  turns,          \* the locals of each of the POST calls that run at once
  heard,          \* what each of them received from its awaits, in order
  wAnswer,        \* the final answer of the turn whose stream is read
  wire,           \* the bytes of the response body that reach the client
  delivered,      \* how many of them reader.read() has handed over
  buffer,         \* handleSubmit: let buffer
  done,           \* handleSubmit: let done
  content,        \* the content of the assistant placeholder message
  panel,          \* the state hooks of LocalChatPanel
  submits,        \* the locals of each handleSubmit call that sent a request
  fetched,        \* how many times the panel called fetch("/api/chat")
  issued,         \* how many ids crypto.randomUUID() has returned
  now             \* the time new Date() returned last

\* The state of a turn
tvars == <<handler, pc, messages, model, sent, firstMessage, toolCalls, cur,
           toolMessages, searchLog, secondMessage, finalContent, frames,
           closed, status, respBody, failure, answered, searched, logged>>

\* The state of the search module on its own
svars == <<envKey, envUrl, client, spc, sVia, sQuery, sMax, outbound, sResp,
           sResult>>

\* The state of the POST calls that run at the same time
cvars == <<turns, heard>>

\* The state of the client's read of one response
wvars == <<wAnswer, wire, delivered, buffer, done, content>>

\* The state of the chat panel in the browser
uvars == <<panel, submits, fetched, issued, now>>

vars == <<tvars, svars, cvars, wvars, uvars>>

\* What a single turn, the search module on its own, and the concurrent
\* turns leave alone
offTurn == <<svars, cvars, wvars, uvars>>

offSearch == <<tvars, cvars, wvars, uvars>>

offTurns == <<tvars, svars, wvars, uvars>>

offStream == <<tvars, svars, cvars, uvars>>

offPanel == <<tvars, svars, cvars, wvars>>

(***************************************************************************)
(* Values                                                                  *)
(***************************************************************************)
\* JavaScript truthiness of an optional string
Truthy(opt) == opt # {} /\ opt # {""}

\* a ?? b on optional values
Nullish(opt, dflt) == IF opt = {} THEN dflt ELSE opt

The(opt) == CHOOSE v \in opt : TRUE

\* Variant of StringOf that loses the text.
StringOfLosesText(opt) == ""

\* String(x ?? "")
StringOf(opt) == IF opt = {} THEN "" ELSE The(opt)

Min(a, b) == IF a < b THEN a ELSE b
Max(a, b) == IF a > b THEN a ELSE b

(***************************************************************************)
(* Constants of the route                                                  *)
(***************************************************************************)
DEFAULT_MODEL == "Ministral-3-8B-Reasoning-2512"

WEB_SEARCH_TOOL ==
  [type |-> "function", name |-> "web_search", required |-> <<"query">>]

SYSTEM_MESSAGE == [role |-> "system", content |-> "PHASE1_TOOL_USE_POLICY"]

SECOND_SYSTEM_MESSAGE == [role |-> "system", content |-> "PHASE2_ANSWER_ONLY"]

ERROR_BODY == "{\"error\":\"Failed to call local chat backend\"}"

DEFAULT_MAX_RESULTS == 3

SERPER_MAX_RESULTS == 5

(***************************************************************************)
(* Inputs: what the client, the inference backend and the search provider  *)
(* may hand to the route.                                                  *)
(***************************************************************************)
\* The JSON body of the inbound request; parsed |-> FALSE is a body on which
\* request.json() rejects.
Requests ==
  { [parsed |-> FALSE, messages |-> {}, model |-> {}],
    [parsed |-> TRUE, messages |-> {}, model |-> {"m1"}],
    [parsed |-> TRUE,
     messages |-> {<<[role |-> "user", content |-> "u1"]>>},
     model |-> {}],
    [parsed |-> TRUE,
     messages |-> {<<[role |-> "user", content |-> "u1"],
                     [role |-> "assistant", content |-> "a1"],
                     [role |-> "user", content |-> "u2"]>>},
     model |-> {"m1"}] }

\* The strings a tool call may carry as function.arguments.
ArgStrings ==
  { "{", "null", "7", "{}", "{\"query\":\"\"}", "{\"query\":\"q1\"}",
    "{\"query\":\"q2\",\"max_results\":9}",
    "{\"query\":\"q3\",\"max_results\":0}" }

\* The elements of tool_calls the backend may return (without their id,
\* which is the position in the array).  present |-> FALSE is a null element;
\* name and arguments are function?.name and function?.arguments.
ToolCallShapes ==
  { [present |-> TRUE, type |-> "function", name |-> {"web_search"},
     arguments |-> {a}] : a \in ArgStrings }
  \cup
  { [present |-> FALSE, type |-> "", name |-> {}, arguments |-> {}],
    [present |-> TRUE, type |-> "function", name |-> {"web_search"},
     arguments |-> {}],
    [present |-> TRUE, type |-> "other", name |-> {"web_search"},
     arguments |-> {"{\"query\":\"q1\"}"}],
    [present |-> TRUE, type |-> "function", name |-> {"calculator"},
     arguments |-> {"{\"query\":\"q1\"}"}],
    [present |-> TRUE, type |-> "function", name |-> {"calculator"},
     arguments |-> {"null"}] }

RECURSIVE SeqsUpTo(_, _)
SeqsUpTo(S, n) ==
  IF n = 0 THEN {<<>>}
  ELSE LET shorter == SeqsUpTo(S, n - 1)
       IN  shorter \cup {Append(s, x) : s \in {t \in shorter : Len(t) = n - 1},
                                         x \in S}

WithIds(shapes) ==
  [i \in 1..Len(shapes) |->
     [id |-> i, present |-> shapes[i].present, type |-> shapes[i].type,
      name |-> shapes[i].name, arguments |-> shapes[i].arguments]]

\* message.tool_calls: absent or not an array (isArray FALSE), or an array.
ToolCallFields ==
  { [isArray |-> FALSE, items |-> <<>>] }
  \cup { [isArray |-> TRUE, items |-> WithIds(s)]
           : s \in SeqsUpTo(ToolCallShapes, MaxCalls) }

Contents == { {}, {""}, {"A1"} }

EmptyMessage == [content |-> {}, tool_calls |-> [isArray |-> FALSE, items |-> <<>>]]

\* What the backend answers to the first call.  status is "unreachable"
\* (fetch rejects), "error" (!res.ok) or "ok"; json |-> FALSE is a body on
\* which res.json() rejects; message is choices[0].message, possibly absent.
FirstResponses ==
  { [status |-> "unreachable", text |-> "", json |-> FALSE, message |-> {}],
    [status |-> "error", text |-> "", json |-> FALSE, message |-> {}],
    [status |-> "error", text |-> "backend down", json |-> FALSE, message |-> {}],
    [status |-> "ok", text |-> "", json |-> FALSE, message |-> {}],
    [status |-> "ok", text |-> "", json |-> TRUE, message |-> {}] }
  \cup
  { [status |-> "ok", text |-> "", json |-> TRUE,
     message |-> {[content |-> c, tool_calls |-> t]}]
      : c \in Contents, t \in ToolCallFields }

SecondResponses ==
  { [status |-> "unreachable", text |-> "", json |-> FALSE, message |-> {}],
    [status |-> "error", text |-> "backend down", json |-> FALSE, message |-> {}],
    [status |-> "ok", text |-> "", json |-> FALSE, message |-> {}],
    [status |-> "ok", text |-> "", json |-> TRUE, message |-> {}],
    [status |-> "ok", text |-> "", json |-> TRUE,
     message |-> {[content |-> {"A2"},
                   tool_calls |-> [isArray |-> TRUE,
                     items |-> WithIds(<<[present |-> TRUE,
                                          type |-> "function",
                                          name |-> {"web_search"},
                                          arguments |-> {"{\"query\":\"q1\"}"}]>>)]]}] }
  \cup
  { [status |-> "ok", text |-> "", json |-> TRUE,
     message |-> {[content |-> c,
                   tool_calls |-> [isArray |-> FALSE, items |-> <<>>]]}]
      : c \in Contents \cup {{"A2"}} }

\* An organic result of the provider; every field may be missing.
Item1 == [title |-> {"T1"}, link |-> {"L1"}, url |-> {}, snippet |-> {"S1"},
          description |-> {}]
Item2 == [title |-> {}, link |-> {}, url |-> {"U2"}, snippet |-> {},
          description |-> {"D2"}]

\* What the provider answers: status "timeout" (the AbortSignal fires),
\* "error" (!res.ok) or "ok" with data.organic, possibly absent.
ProviderResponses ==
  { [status |-> "timeout", organic |-> {}],
    [status |-> "error", organic |-> {}],
    [status |-> "ok", organic |-> {}],
    [status |-> "ok", organic |-> {<<Item1>>}],
    [status |-> "ok", organic |-> {<<Item1, Item2>>}] }

(***************************************************************************)
(* Search gateway (SerperClient) and tool adapter (runWebSearch)           *)
(***************************************************************************)
\* (data.organic ?? []).slice(0, maxResults)
\* Variant of Slice that keeps the whole list.
SliceKeepsAll(organic, maxResults) ==
  IF organic = {} THEN <<>> ELSE The(organic)

\* slice(0, end) counts a negative end from the end of the list.
Slice(organic, maxResults) ==
  LET list == IF organic = {} THEN <<>> ELSE The(organic)
      end == IF maxResults < 0 THEN Max(Len(list) + maxResults, 0)
             ELSE Min(maxResults, Len(list))
  IN  SubSeq(list, 1, end)

\* Variant of GatewayRecord that reads the primary field names only.
GatewayRecordNoAliases(item) ==
  [title |-> StringOf(item.title), url |-> StringOf(item.link),
   snippet |-> StringOf(item.snippet)]

\* .map(item => ({title, url, snippet})) of SerperClient.search
GatewayRecord(item) ==
  [title |-> StringOf(item.title),
   url |-> StringOf(Nullish(item.link, item.url)),
   snippet |-> StringOf(Nullish(item.snippet, item.description))]

\* Variant of SearchPayload in which the gateway clamps the count.
SearchPayloadClamps(query, maxResults) ==
  [q |-> query, num |-> Min(Max(maxResults, 1), SERPER_MAX_RESULTS)]

\* SerperClient.search: the request it sends
SearchPayload(query, maxResults) == [q |-> query, num |-> maxResults]

\* Variant of SearchThrows that does not look at res.ok.
SearchThrowsOnlyTimeout(resp) == resp.status = "timeout"

\* SerperClient.search: throws on a timeout or a non-success status
SearchThrows(resp) == resp.status # "ok"

\* SerperClient.search: the message of the error it throws (the timeout is
\* the AbortSignal's TimeoutError)
SearchErrorMessage(resp) ==
  IF resp.status = "timeout" THEN "The operation was aborted due to timeout"
  ELSE "Serper error: 500 Internal Server Error"

\* SerperClient.search: the value it resolves to
SearchValue(resp, maxResults) ==
  LET kept == Slice(resp.organic, maxResults)
  IN  [i \in 1..Len(kept) |-> GatewayRecord(kept[i])]

\* Variant of Limit without the lower bound.
LimitNoFloor(maxResults) == Min(maxResults, SERPER_MAX_RESULTS)

\* runWebSearch: const limit
Limit(maxResults) == Min(Max(maxResults, 1), SERPER_MAX_RESULTS)

\* runWebSearch: results.map(r => ...).  The records of the gateway carry
\* title, url and snippet only: r.link and r.description are undefined.
Enriched(results) ==
  [i \in 1..Len(results) |->
     [title |-> results[i].title, url |-> results[i].url,
      snippet |-> results[i].snippet]]

\* runWebSearch: the value it resolves to
RunWebSearchValue(query, maxResults, resp) ==
  [query |-> query,
   results |-> Enriched(SearchValue(resp, Limit(maxResults)))]

(***************************************************************************)
(* The tool-call loop of POST                                              *)
(***************************************************************************)
\* JSON.parse(rawArgs): ok |-> FALSE when it throws; isNull when the text
\* is the JSON null; otherwise the query and max_results members of the
\* value (a number has neither).
JSONParse(raw) ==
  CASE raw = "{" ->
         [ok |-> FALSE, isNull |-> FALSE, query |-> {}, max_results |-> {}]
    [] raw = "null" ->
         [ok |-> TRUE, isNull |-> TRUE, query |-> {}, max_results |-> {}]
    [] raw = "7" ->
         [ok |-> TRUE, isNull |-> FALSE, query |-> {}, max_results |-> {}]
    [] raw = "{}" ->
         [ok |-> TRUE, isNull |-> FALSE, query |-> {}, max_results |-> {}]
    [] raw = "{\"query\":\"\"}" ->
         [ok |-> TRUE, isNull |-> FALSE, query |-> {""}, max_results |-> {}]
    [] raw = "{\"query\":\"q1\"}" ->
         [ok |-> TRUE, isNull |-> FALSE, query |-> {"q1"}, max_results |-> {}]
    [] raw = "{\"query\":\"q2\",\"max_results\":9}" ->
         [ok |-> TRUE, isNull |-> FALSE, query |-> {"q2"}, max_results |-> {9}]
    [] raw = "{\"query\":\"q3\",\"max_results\":0}" ->
         [ok |-> TRUE, isNull |-> FALSE, query |-> {"q3"}, max_results |-> {0}]

\* Variant of Skipped that does not look at the type.
SkippedOnlyNull(toolCall) == ~toolCall.present

\* if (!toolCall || toolCall.type !== "function") continue;
Skipped(toolCall) == ~toolCall.present \/ toolCall.type # "function"

\* const rawArgs = toolCall.function?.arguments ?? "{}";
RawArgs(toolCall) == The(Nullish(toolCall.arguments, {"{}"}))

\* Variant of ParsedArgs whose fallback carries a query.
ParsedArgsFallbackQuery(toolCall) ==
  LET parsed == JSONParse(RawArgs(toolCall))
  IN  IF parsed.ok THEN parsed
      ELSE [ok |-> TRUE, isNull |-> FALSE, query |-> {"q1"},
            max_results |-> {}]

\* let parsedArgs = { query: "" }; try { parsedArgs = JSON.parse(rawArgs) }
\* catch {}
ParsedArgs(toolCall) ==
  LET parsed == JSONParse(RawArgs(toolCall))
  IN  IF parsed.ok THEN parsed
      ELSE [ok |-> TRUE, isNull |-> FALSE, query |-> {""}, max_results |-> {}]

\* Variant of NameMatches that takes any tool name.
NameMatchesAny(toolCall) == toolCall.name # {}

\* name === "web_search"
NameMatches(toolCall) == toolCall.name = {"web_search"}

\* name === "web_search" && parsedArgs.query: reading .query of null throws
\* a TypeError; && does not read it when the name differs.
ConditionThrows(toolCall) ==
  ~Skipped(toolCall) /\ NameMatches(toolCall) /\ ParsedArgs(toolCall).isNull

\* Variant of Accepted that does not look at the tool name.
AcceptedAnyName(toolCall) ==
  /\ ~Skipped(toolCall)
  /\ ~ParsedArgs(toolCall).isNull
  /\ Truthy(ParsedArgs(toolCall).query)

\* if (name === "web_search" && parsedArgs.query)
Accepted(toolCall) ==
  /\ ~Skipped(toolCall)
  /\ NameMatches(toolCall)
  /\ ~ParsedArgs(toolCall).isNull
  /\ Truthy(ParsedArgs(toolCall).query)

\* const maxResults = parsedArgs.max_results ?? 3;
MaxResultsOf(toolCall) ==
  The(Nullish(ParsedArgs(toolCall).max_results, {DEFAULT_MAX_RESULTS}))

\* The loop from element i on, up to the next await or throw: "search" at
\* the first accepted call, "throw" at the first call whose condition
\* throws, "end" when the array is exhausted.
RECURSIVE RunLoop(_, _)
RunLoop(calls, i) ==
  IF i > Len(calls) THEN [kind |-> "end", at |-> i]
  ELSE IF ConditionThrows(calls[i]) THEN [kind |-> "throw", at |-> i]
  ELSE IF Accepted(calls[i]) THEN [kind |-> "search", at |-> i]
  ELSE RunLoop(calls, i + 1)

\* toolMessages.push({role: "tool", tool_call_id, name, content})
ToolMessage(toolCall, result) ==
  [role |-> "tool", tool_call_id |-> toolCall.id, name |-> The(toolCall.name),
   content |-> [json |-> result]]

(***************************************************************************)
(* callLocalChat and the payloads of the two phases                        *)
(***************************************************************************)
\* What the route can observe of a backend response
Outcome(resp) ==
  [status |-> resp.status, json |-> resp.json,
   hasMessage |-> resp.message # {}]

\* Variant of CallThrows that does not look at res.ok.
CallThrowsOnlyUnreachable(resp) == resp.status = "unreachable"

\* callLocalChat throws when fetch rejects or the status is not a success
CallThrows(resp) == resp.status # "ok"

\* response?.choices?.[0]?.message ?? {}, where response is null when
\* res.json() rejected
MessageOf(resp) ==
  IF resp.json /\ resp.message # {} THEN The(resp.message) ELSE EmptyMessage

\* callLocalChat: the message of the error it throws; fetch rejects with
\* its own TypeError when the backend is unreachable
CallErrorMessage(resp) ==
  IF resp.status = "unreachable" THEN "fetch failed"
  ELSE IF resp.text # "" THEN resp.text
  ELSE "Upstream chat backend error (500 Internal Server Error)"

\* The TypeError of reading .query of null
TYPE_ERROR_MESSAGE == "Cannot read properties of null (reading 'query')"

\* Array.isArray(rawToolCalls) ? rawToolCalls : []
ToolCallsOf(message) ==
  IF message.tool_calls.isArray THEN message.tool_calls.items ELSE <<>>

\* const baseMessages = [SYSTEM_MESSAGE, ...messages]
BaseMessages(msgs) == <<SYSTEM_MESSAGE>> \o msgs

FirstPayload(mdl, msgs) ==
  [model |-> mdl, messages |-> BaseMessages(msgs),
   tools |-> {<<WEB_SEARCH_TOOL>>}, tool_choice |-> "auto", stream |-> {FALSE}]

\* route.ts: [SECOND_SYSTEM_MESSAGE, ...messages, ...toolMessages]
SecondMessagesRoute(msgs, first, tools) ==
  <<SECOND_SYSTEM_MESSAGE>> \o msgs \o tools

\* part_001: baseMessages.concat([firstMessage, ...toolMessages])
SecondMessagesLegacy(msgs, first, tools) ==
  BaseMessages(msgs) \o <<first>> \o tools

\* Variant of SecondPayload that repeats the tool settings of the first.
SecondPayloadWithTools(h, mdl, msgs, first, tools) ==
  [model |-> mdl,
   messages |-> IF h = "route" THEN SecondMessagesRoute(msgs, first, tools)
                ELSE SecondMessagesLegacy(msgs, first, tools),
   tools |-> {<<WEB_SEARCH_TOOL>>}, tool_choice |-> "auto", stream |-> {}]

SecondPayload(h, mdl, msgs, first, tools) ==
  [model |-> mdl,
   messages |-> IF h = "route" THEN SecondMessagesRoute(msgs, first, tools)
                ELSE SecondMessagesLegacy(msgs, first, tools),
   tools |-> {}, tool_choice |-> "none", stream |-> {}]

(***************************************************************************)
(* The SSE encoder and the two ways the handler returns                    *)
(***************************************************************************)
DataFrame(text) == [kind |-> "data", content |-> text]

DoneFrame == [kind |-> "done", content |-> "[DONE]"]

\* Variant of Encode that emits the data frame for the empty text too.
EncodeAlwaysData(text) == <<DataFrame(text), DoneFrame>>

\* start(controller): one data frame if finalContent is truthy, then [DONE]
Encode(text) ==
  (IF text # "" THEN <<DataFrame(text)>> ELSE <<>>) \o <<DoneFrame>>

\* new ReadableStream({start}) and return new Response(stream, {status: 200})
ReturnStream(text) ==
  /\ finalContent' = text
  /\ frames' = Encode(text)
  /\ closed' = TRUE
  /\ status' = 200
  /\ respBody' = "stream"
  /\ failure' = "none"
  /\ pc' = "done"
  /\ UNCHANGED logged

\* Variant of ReturnError that answers with the message of the error.
ReturnErrorLeaks(why, message) ==
  /\ logged' = message
  /\ status' = 500
  /\ respBody' = message
  /\ failure' = why
  /\ pc' = "done"
  /\ UNCHANGED <<finalContent, frames, closed>>

\* catch (error): return new Response(JSON.stringify({error}), {status: 500})
ReturnError(why, message) ==
  /\ logged' = message
  /\ status' = 500
  /\ respBody' = ERROR_BODY
  /\ failure' = why
  /\ pc' = "done"
  /\ UNCHANGED <<finalContent, frames, closed>>

\* Variant of Continue that starts the search of the next accepted element
\* together with the search of the current one.
ContinueOverlaps(first, calls, i, tm) ==
  LET r == RunLoop(calls, i) IN
  /\ toolMessages' = tm
  /\ CASE r.kind = "search" ->
            /\ cur' = r.at
            /\ searchLog' =
                 LET one == Append(searchLog,
                       SearchPayload(The(ParsedArgs(calls[r.at]).query),
                                     Limit(MaxResultsOf(calls[r.at]))))
                     nxt == RunLoop(calls, r.at + 1)
                 IN  IF nxt.kind = "search"
                     THEN Append(one,
                       SearchPayload(The(ParsedArgs(calls[nxt.at]).query),
                                     Limit(MaxResultsOf(calls[nxt.at]))))
                     ELSE one
            /\ pc' = "awaitSearch"
            /\ UNCHANGED <<sent, finalContent, frames, closed, status,
                           respBody, failure, logged>>
       [] r.kind = "throw" ->
            /\ cur' = r.at
            /\ ReturnError("type_error", TYPE_ERROR_MESSAGE)
            /\ UNCHANGED <<sent, searchLog>>
       [] r.kind = "end" ->
            /\ cur' = 0
            /\ sent' = Append(sent,
                 SecondPayload(handler, model, messages, first, tm))
            /\ pc' = "awaitSecond"
            /\ UNCHANGED <<searchLog, finalContent, frames, closed, status,
                           respBody, failure, logged>>

\* The handler runs the loop from element i on with the tool messages tm
\* until it suspends on a search, throws, or sends the second payload.
Continue(first, calls, i, tm) ==
  LET r == RunLoop(calls, i) IN
  /\ toolMessages' = tm
  /\ CASE r.kind = "search" ->
            /\ cur' = r.at
            /\ searchLog' = Append(searchLog,
                 SearchPayload(The(ParsedArgs(calls[r.at]).query),
                               Limit(MaxResultsOf(calls[r.at]))))
            /\ pc' = "awaitSearch"
            /\ UNCHANGED <<sent, finalContent, frames, closed, status,
                           respBody, failure, logged>>
       [] r.kind = "throw" ->
            /\ cur' = r.at
            /\ ReturnError("type_error", TYPE_ERROR_MESSAGE)
            /\ UNCHANGED <<sent, searchLog>>
       [] r.kind = "end" ->
            /\ cur' = 0
            /\ sent' = Append(sent,
                 SecondPayload(handler, model, messages, first, tm))
            /\ pc' = "awaitSecond"
            /\ UNCHANGED <<searchLog, finalContent, frames, closed, status,
                           respBody, failure, logged>>

(***************************************************************************)
(* The turn                                                                *)
(***************************************************************************)
Unloaded == [state |-> "unloaded", apiKey |-> "", baseUrl |-> ""]

MaxTurns == 2

\* The POST calls that may run at the same time
TurnIds == 1..MaxTurns

\* The locals of a POST call before it is made
LocalIdle ==
  [pc |-> "idle", messages |-> <<>>, model |-> "", sent |-> <<>>,
   firstMessage |-> EmptyMessage, toolCalls |-> <<>>, cur |-> 0,
   toolMessages |-> <<>>, finalContent |-> "", frames |-> <<>>,
   closed |-> FALSE, status |-> 0]

\* No response is being read
StreamIdle ==
  /\ wAnswer = ""
  /\ wire = ""
  /\ delivered = 0
  /\ buffer = ""
  /\ done = FALSE
  /\ content = ""

\* Most handleSubmit calls that send a request
MaxSubmits == 2

SubmitIds == 1..MaxSubmits

\* A handleSubmit call that has not been made
NoSubmit ==
  [pc |-> "idle", assistantId |-> 0, response |-> {}, left |-> <<>>]

\* The panel as useState creates it (route.ts:333-338), for the stored
\* history h
NewPanel(h) ==
  [messages |-> <<>>, input |-> "", isSending |-> FALSE, error |-> {},
   pendingImage |-> {}, history |-> h]

\* The panel shows nothing and has sent nothing
PanelIdle ==
  /\ panel = NewPanel(<<>>)
  /\ submits = [k \in SubmitIds |-> NoSubmit]
  /\ fetched = 0
  /\ issued = 0
  /\ now = 0

\* No POST call is running
TurnsIdle ==
  /\ turns = [t \in TurnIds |-> LocalIdle]
  /\ heard = [t \in TurnIds |-> <<>>]

NoResponse == [status |-> "none", organic |-> {}]

NoResult == [query |-> "", results |-> <<>>]

\* The search module between calls, for the configuration (key, url)
SearchIdle(key, url) ==
  /\ envKey = key
  /\ envUrl = url
  /\ client = Unloaded
  /\ spc = "idle"
  /\ sVia = "adapter"
  /\ sQuery = ""
  /\ sMax = 0
  /\ outbound = <<>>
  /\ sResp = NoResponse
  /\ sResult = NoResult

\* No request has reached POST
TurnIdle ==
  /\ pc = "idle"
  /\ messages = <<>>
  /\ model = ""
  /\ sent = <<>>
  /\ firstMessage = EmptyMessage
  /\ toolCalls = <<>>
  /\ cur = 0
  /\ toolMessages = <<>>
  /\ searchLog = <<>>
  /\ secondMessage = EmptyMessage
  /\ finalContent = ""
  /\ frames = <<>>
  /\ closed = FALSE
  /\ status = 0
  /\ respBody = "none"
  /\ failure = "none"
  /\ answered = <<>>
  /\ searched = <<>>
  /\ logged = ""

\* A turn runs in a process whose search module loaded: both settings are
\* set.  The calls of the module that a turn makes are in searchLog.
Init ==
  /\ SearchIdle({"key"}, {"http://serper"})
  /\ TurnsIdle
  /\ StreamIdle
  /\ PanelIdle
  /\ handler \in {"route", "legacy"}
  /\ TurnIdle

\* POST up to `await callLocalChat(firstPayload)`
Post ==
  /\ pc = "idle"
  /\ UNCHANGED offTurn
  /\ \E req \in Requests :
    /\ messages' = IF req.parsed THEN The(Nullish(req.messages, {<<>>}))
                   ELSE <<>>
    /\ model' = IF req.parsed THEN The(Nullish(req.model, {DEFAULT_MODEL}))
                ELSE DEFAULT_MODEL
    /\ sent' = <<FirstPayload(model', messages')>>
    /\ pc' = "awaitFirst"
    /\ UNCHANGED <<handler, firstMessage, toolCalls, cur, toolMessages,
                   searchLog, secondMessage, finalContent, frames, closed,
                   status, respBody, failure, answered, searched, logged>>

\* The first call throws: the catch block answers
FirstCallFails ==
  /\ pc = "awaitFirst"
  /\ UNCHANGED offTurn
  /\ \E resp \in FirstResponses :
    /\ answered' = Append(answered, Outcome(resp))
    /\ UNCHANGED searched
    /\ CallThrows(resp)
    /\ ReturnError("first_call", CallErrorMessage(resp))
    /\ UNCHANGED <<handler, messages, model, sent, firstMessage, toolCalls,
                   cur, toolMessages, searchLog, secondMessage>>

\* The first call returns and toolCalls.length === 0
FirstAnswersDirectly ==
  /\ pc = "awaitFirst"
  /\ UNCHANGED offTurn
  /\ \E resp \in FirstResponses :
    /\ answered' = Append(answered, Outcome(resp))
    /\ UNCHANGED searched
    /\ ~CallThrows(resp)
    /\ Len(ToolCallsOf(MessageOf(resp))) = 0
    /\ firstMessage' = MessageOf(resp)
    /\ toolCalls' = <<>>
    /\ ReturnStream(StringOf(firstMessage'.content))
    /\ UNCHANGED <<handler, messages, model, sent, cur, toolMessages,
                   searchLog, secondMessage>>

\* Variant of FirstRequestsTools that does not look at toolCalls.length.
FirstRequestsToolsAnyLength ==
  /\ pc = "awaitFirst"
  /\ UNCHANGED offTurn
  /\ \E resp \in FirstResponses :
    /\ answered' = Append(answered, Outcome(resp))
    /\ UNCHANGED searched
    /\ ~CallThrows(resp)
    /\ firstMessage' = MessageOf(resp)
    /\ toolCalls' = ToolCallsOf(firstMessage')
    /\ Continue(firstMessage', toolCalls', 1, <<>>)
    /\ UNCHANGED <<handler, messages, model, secondMessage>>

\* The first call returns tool calls: the loop starts
FirstRequestsTools ==
  /\ pc = "awaitFirst"
  /\ UNCHANGED offTurn
  /\ \E resp \in FirstResponses :
    /\ answered' = Append(answered, Outcome(resp))
    /\ UNCHANGED searched
    /\ ~CallThrows(resp)
    /\ Len(ToolCallsOf(MessageOf(resp))) > 0
    /\ firstMessage' = MessageOf(resp)
    /\ toolCalls' = ToolCallsOf(firstMessage')
    /\ Continue(firstMessage', toolCalls', 1, <<>>)
    /\ UNCHANGED <<handler, messages, model, secondMessage>>

\* Variant of SearchFails that sends the failed search again.
SearchFailsRetries ==
  /\ pc = "awaitSearch"
  /\ UNCHANGED offTurn
  /\ Len(searchLog) <= MaxCalls
  /\ \E resp \in ProviderResponses :
    /\ searched' = Append(searched, resp.status)
    /\ UNCHANGED answered
    /\ SearchThrows(resp)
    /\ searchLog' = Append(searchLog, searchLog[Len(searchLog)])
    /\ UNCHANGED <<handler, pc, messages, model, sent, firstMessage,
                   toolCalls, cur, toolMessages, secondMessage, finalContent,
                   frames, closed, status, respBody, failure, logged>>

\* Variant of SearchFails that goes on with the next element.
SearchFailsSkips ==
  /\ pc = "awaitSearch"
  /\ UNCHANGED offTurn
  /\ \E resp \in ProviderResponses :
    /\ searched' = Append(searched, resp.status)
    /\ UNCHANGED answered
    /\ SearchThrows(resp)
    /\ Continue(firstMessage, toolCalls, cur + 1, toolMessages)
    /\ UNCHANGED <<handler, messages, model, firstMessage, toolCalls,
                   secondMessage>>

\* `await runWebSearch(query, maxResults)` rejects
SearchFails ==
  /\ pc = "awaitSearch"
  /\ UNCHANGED offTurn
  /\ \E resp \in ProviderResponses :
    /\ searched' = Append(searched, resp.status)
    /\ UNCHANGED answered
    /\ SearchThrows(resp)
    /\ ReturnError("search", SearchErrorMessage(resp))
    /\ UNCHANGED <<handler, messages, model, sent, firstMessage, toolCalls,
                   cur, toolMessages, searchLog, secondMessage>>

\* `await runWebSearch(query, maxResults)` resolves: push the tool message
\* and go on with the next element
SearchReturns ==
  /\ pc = "awaitSearch"
  /\ UNCHANGED offTurn
  /\ \E resp \in ProviderResponses :
    /\ searched' = Append(searched, resp.status)
    /\ UNCHANGED answered
    /\ ~SearchThrows(resp)
    /\ LET call == toolCalls[cur]
           result == RunWebSearchValue(The(ParsedArgs(call).query),
                                       MaxResultsOf(call), resp)
       IN  Continue(firstMessage, toolCalls, cur + 1,
                    Append(toolMessages, ToolMessage(call, result)))
    /\ UNCHANGED <<handler, messages, model, firstMessage, toolCalls,
                   secondMessage>>

\* The second call throws
SecondCallFails ==
  /\ pc = "awaitSecond"
  /\ UNCHANGED offTurn
  /\ \E resp \in SecondResponses :
    /\ answered' = Append(answered, Outcome(resp))
    /\ UNCHANGED searched
    /\ CallThrows(resp)
    /\ ReturnError("second_call", CallErrorMessage(resp))
    /\ UNCHANGED <<handler, messages, model, sent, firstMessage, toolCalls,
                   cur, toolMessages, searchLog, secondMessage>>

\* Variant of SecondAnswers that answers with the content of the first
\* message when the second has none.
SecondAnswersFallsBack ==
  /\ pc = "awaitSecond"
  /\ UNCHANGED offTurn
  /\ \E resp \in SecondResponses :
    /\ answered' = Append(answered, Outcome(resp))
    /\ UNCHANGED searched
    /\ ~CallThrows(resp)
    /\ secondMessage' = MessageOf(resp)
    /\ ReturnStream(IF Truthy(secondMessage'.content)
                    THEN StringOf(secondMessage'.content)
                    ELSE StringOf(firstMessage.content))
    /\ UNCHANGED <<handler, messages, model, sent, firstMessage, toolCalls,
                   cur, toolMessages, searchLog>>

\* The second call returns: its content is the final answer
SecondAnswers ==
  /\ pc = "awaitSecond"
  /\ UNCHANGED offTurn
  /\ \E resp \in SecondResponses :
    /\ answered' = Append(answered, Outcome(resp))
    /\ UNCHANGED searched
    /\ ~CallThrows(resp)
    /\ secondMessage' = MessageOf(resp)
    /\ ReturnStream(StringOf(secondMessage'.content))
    /\ UNCHANGED <<handler, messages, model, sent, firstMessage, toolCalls,
                   cur, toolMessages, searchLog>>

Next ==
  \/ Post
  \/ FirstCallFails
  \/ FirstAnswersDirectly
  \/ FirstRequestsTools
  \/ SearchFails
  \/ SearchReturns
  \/ SecondCallFails
  \/ SecondAnswers

Spec == Init /\ [][Next]_vars

(***************************************************************************)
(* The search module on its own: the tool adapter (runWebSearch, truncate) *)
(* and the gateway (SerperClient), called with any arguments under any     *)
(* configuration                                                           *)
(***************************************************************************)
MaxOrganic == 6

SEARCH_MAX_CHARS == 600

\* The text of n copies of the character c
RECURSIVE Rep(_, _)
Rep(c, n) ==
  IF n = 0 THEN ""
  ELSE LET h == Rep(c, n \div 2)
       IN  IF n % 2 = 1 THEN h \o h \o c ELSE h \o h

\* truncate(text, max) of the adapter
truncate(text, max) ==
  IF text = {} \/ text = {""} THEN ""
  ELSE IF Len(The(text)) > max THEN SubSeq(The(text), 1, max) \o "..."
  ELSE The(text)

\* process.env.SERPER_API_KEY and process.env.SERPER_BASE_URL
EnvKeys == {{}, {""}, {"key"}}

EnvUrls == {{}, {""}, {"/"}, {"http://serper"}, {"http://serper/"}}

\* .replace(/\/$/, "")
StripSlash(text) ==
  IF Len(text) > 0 /\ SubSeq(text, Len(text), Len(text)) = "/"
  THEN SubSeq(text, 1, Len(text) - 1)
  ELSE text

\* Variant of ConstructorThrows that checks the key only.
ConstructorThrowsKeyOnly(apiKey, baseUrl) == apiKey = ""

\* SerperClient's constructor: throws when a setting is empty
ConstructorThrows(apiKey, baseUrl) == apiKey = "" \/ baseUrl = ""

\* new SerperClient()
NewSerperClient(key, url) ==
  LET apiKey == The(Nullish(key, {""}))
      baseUrl == StripSlash(The(Nullish(url, {""})))
  IN  IF ConstructorThrows(apiKey, baseUrl)
      THEN [state |-> "failed", apiKey |-> "", baseUrl |-> ""]
      ELSE [state |-> "ready", apiKey |-> apiKey, baseUrl |-> baseUrl]

\* The arguments of a call
Queries == {"q1"}

MaxResultsArgs == -1..7

\* The i-th entry of the provider's organic list: complete, under the
\* alternate field names with an over-long text, empty, with a text of
\* exactly SEARCH_MAX_CHARS characters, and with empty strings under the
\* primary names.
Organic(i) ==
  CASE i % 5 = 1 ->
         [title |-> {"T" \o ToString(i)}, link |-> {"L"}, url |-> {},
          snippet |-> {"S"}, description |-> {}]
    [] i % 5 = 2 ->
         [title |-> {}, link |-> {}, url |-> {"U"}, snippet |-> {},
          description |-> {Rep("x", SEARCH_MAX_CHARS + 1)}]
    [] i % 5 = 3 ->
         [title |-> {}, link |-> {}, url |-> {}, snippet |-> {},
          description |-> {}]
    [] i % 5 = 4 ->
         [title |-> {"T" \o ToString(i)}, link |-> {"L"}, url |-> {"U"},
          snippet |-> {Rep("y", SEARCH_MAX_CHARS)}, description |-> {"D"}]
    [] OTHER ->
         [title |-> {"T" \o ToString(i)}, link |-> {""}, url |-> {"U"},
          snippet |-> {""}, description |-> {"D"}]

\* What the provider answers to the module called on its own
SearchResponses ==
  { [status |-> "timeout", organic |-> {}],
    [status |-> "error", organic |-> {}],
    [status |-> "ok", organic |-> {}] }
  \cup { [status |-> "ok", organic |-> {[j \in 1..k |-> Organic(j)]}] :
           k \in 0..MaxOrganic }

\* SerperClient.search: the request fetch sends
Request(query, maxResults) ==
  [url |-> client.baseUrl \o "/search", apiKey |-> client.apiKey,
   body |-> SearchPayload(query, maxResults)]

\* The module is evaluated: const client = new SerperClient()
LoadModule ==
  /\ client.state = "unloaded"
  /\ client' = NewSerperClient(envKey, envUrl)
  /\ UNCHANGED <<offSearch, envKey, envUrl, spc, sVia, sQuery, sMax, outbound,
                 sResp, sResult>>

\* runWebSearch(query, maxResults) up to the await of fetch
CallRunWebSearch ==
  /\ spc = "idle"
  /\ client.state = "ready"
  /\ \E q \in Queries, m \in MaxResultsArgs :
       /\ sVia' = "adapter"
       /\ sQuery' = q
       /\ sMax' = m
       /\ outbound' = Append(outbound, Request(q, Limit(m)))
  /\ spc' = "awaitProvider"
  /\ UNCHANGED <<offSearch, envKey, envUrl, client, sResp, sResult>>

\* client.search(query, maxResults) up to the await of fetch
CallSearch ==
  /\ spc = "idle"
  /\ client.state = "ready"
  /\ \E q \in Queries, m \in MaxResultsArgs :
       /\ sVia' = "gateway"
       /\ sQuery' = q
       /\ sMax' = m
       /\ outbound' = Append(outbound, Request(q, m))
  /\ spc' = "awaitProvider"
  /\ UNCHANGED <<offSearch, envKey, envUrl, client, sResp, sResult>>

\* fetch rejects or res.ok is false: search throws, runWebSearch with it
ProviderFails ==
  /\ spc = "awaitProvider"
  /\ \E resp \in SearchResponses :
       /\ SearchThrows(resp)
       /\ sResp' = resp
  /\ spc' = "threw"
  /\ UNCHANGED <<offSearch, envKey, envUrl, client, sVia, sQuery, sMax,
                 outbound, sResult>>

\* res.ok: the call resolves
ProviderAnswers ==
  /\ spc = "awaitProvider"
  /\ \E resp \in SearchResponses :
       /\ ~SearchThrows(resp)
       /\ sResp' = resp
       /\ sResult' =
            IF sVia = "adapter" THEN RunWebSearchValue(sQuery, sMax, resp)
            ELSE [query |-> sQuery, results |-> SearchValue(resp, sMax)]
  /\ spc' = "returned"
  /\ UNCHANGED <<offSearch, envKey, envUrl, client, sVia, sQuery, sMax,
                 outbound>>

InitSearch ==
  /\ \E key \in EnvKeys, url \in EnvUrls : SearchIdle(key, url)
  /\ TurnsIdle
  /\ StreamIdle
  /\ PanelIdle
  /\ handler = "route"
  /\ TurnIdle

NextSearch ==
  \/ LoadModule
  \/ CallRunWebSearch
  \/ CallSearch
  \/ ProviderFails
  \/ ProviderAnswers

SpecSearch == InitSearch /\ [][NextSearch]_vars

(***************************************************************************)
(* POST calls that run at the same time.  Every binding POST writes is a   *)
(* const or let of the function body, so each call has its own; the        *)
(* bindings of the module (SYSTEM_MESSAGE, SECOND_SYSTEM_MESSAGE,           *)
(* WEB_SEARCH_TOOL, client) are only read.  A call runs without            *)
(* interruption from one await to the next.                                *)
(***************************************************************************)
\* Variant of Failed that makes the first call again.
FailedRestarts(l) == [l EXCEPT !.pc = "awaitFirst"]

\* catch (error): the call ends with status 500
Failed(l) == [l EXCEPT !.pc = "done", !.status = 500]

\* The call ends with the success stream of the text
Streamed(l, text) ==
  [l EXCEPT !.pc = "done", !.status = 200, !.finalContent = text,
            !.frames = Encode(text), !.closed = TRUE]

\* The call runs the loop from element i on with the tool messages tm
Looped(h, l, i, tm) ==
  LET r == RunLoop(l.toolCalls, i)
      at == [l EXCEPT !.toolMessages = tm, !.cur = r.at]
  IN  CASE r.kind = "search" -> [at EXCEPT !.pc = "awaitSearch"]
        [] r.kind = "throw" -> Failed(at)
        [] r.kind = "end" ->
             [at EXCEPT !.cur = 0, !.pc = "awaitSecond",
                        !.sent = Append(@, SecondPayload(h, l.model,
                                   l.messages, l.firstMessage, tm))]

\* POST up to the await of the first call
Started(req) ==
  LET msgs == IF req.parsed THEN The(Nullish(req.messages, {<<>>}))
              ELSE <<>>
      mdl == IF req.parsed THEN The(Nullish(req.model, {DEFAULT_MODEL}))
             ELSE DEFAULT_MODEL
  IN  [LocalIdle EXCEPT !.pc = "awaitFirst", !.messages = msgs,
                        !.model = mdl, !.sent = <<FirstPayload(mdl, msgs)>>]

\* The call resumes from its await with resp and runs to its next await
\* or to its end; tm is the toolMessages array its loop body pushes onto.
Resumed(h, l, tm, resp) ==
  CASE l.pc = "awaitFirst" ->
         IF CallThrows(resp) THEN Failed(l)
         ELSE LET first == MessageOf(resp)
                  l1 == [l EXCEPT !.firstMessage = first,
                                  !.toolCalls = ToolCallsOf(first)]
              IN  IF Len(l1.toolCalls) = 0
                  THEN Streamed(l1, StringOf(first.content))
                  ELSE Looped(h, l1, 1, <<>>)
    [] l.pc = "awaitSearch" ->
         IF SearchThrows(resp) THEN Failed(l)
         ELSE LET call == l.toolCalls[l.cur]
                  result == RunWebSearchValue(The(ParsedArgs(call).query),
                                              MaxResultsOf(call), resp)
              IN  Looped(h, l, l.cur + 1,
                         Append(tm, ToolMessage(call, result)))
    [] l.pc = "awaitSecond" ->
         IF CallThrows(resp) THEN Failed(l)
         ELSE Streamed(l, StringOf(MessageOf(resp).content))
    [] OTHER -> l

\* Variant of ToolMessagesOf in which the array is a binding of the
\* module: every call pushes onto the array of the first.
ToolMessagesOfModule(ts, t) == ts[1].toolMessages

\* const toolMessages: any[] = [] is a binding of the call
ToolMessagesOf(ts, t) == ts[t].toolMessages

\* The text named x that belongs to turn t
Tagged(x, t) == x \o ToString(t)

\* The request of turn t
RequestOf(t) ==
  [parsed |-> TRUE,
   messages |-> {<<[role |-> "user", content |-> Tagged("u", t)]>>},
   model |-> {}]

\* A request of the assistant for a search, of any query: the query the
\* model of turn t asks for is "q1" or "q2"
SearchCall(q) ==
  [present |-> TRUE, type |-> "function", name |-> {"web_search"},
   arguments |-> {IF q = 1 THEN "{\"query\":\"q1\"}"
                  ELSE "{\"query\":\"q2\",\"max_results\":9}"}]

\* A request of the assistant that the loop does not run: a search with
\* arguments that carry no query
OtherCall(a) ==
  [present |-> TRUE, type |-> "function", name |-> {"web_search"},
   arguments |-> {a}]

\* What the backend answers to the first call of turn t
FirstResponsesOf(t) ==
  { [status |-> "error", text |-> "", json |-> FALSE, message |-> {}],
    [status |-> "ok", text |-> "", json |-> TRUE,
     message |-> {[content |-> {Tagged("A", t)},
                   tool_calls |-> [isArray |-> FALSE, items |-> <<>>]]}] }
  \cup
  { [status |-> "ok", text |-> "", json |-> TRUE,
     message |-> {[content |-> {Tagged("A", t)},
                   tool_calls |-> [isArray |-> TRUE, items |-> WithIds(c)]]}]
      : c \in { <<SearchCall(1)>>, <<SearchCall(2)>>,
                <<SearchCall(1), SearchCall(2)>>,
                <<OtherCall("{}")>>,
                <<SearchCall(1), OtherCall("null")>> } }

\* What the provider answers to a search of turn t
ProviderResponsesOf(t) ==
  { [status |-> "error", organic |-> {}],
    [status |-> "ok",
     organic |-> {<<[title |-> {Tagged("T", t)}, link |-> {"L"},
                     url |-> {}, snippet |-> {Tagged("S", t)},
                     description |-> {}]>>}] }

\* What the backend answers to the second call of turn t
SecondResponsesOf(t) ==
  { [status |-> "error", text |-> "", json |-> FALSE, message |-> {}],
    [status |-> "ok", text |-> "", json |-> TRUE,
     message |-> {[content |-> {Tagged("B", t)},
                   tool_calls |-> [isArray |-> FALSE, items |-> <<>>]]}] }

\* A request reaches POST
TurnPosts ==
  \E t \in TurnIds :
    /\ turns[t].pc = "idle"
    /\ turns' = [turns EXCEPT ![t] = Started(RequestOf(t))]
    /\ UNCHANGED <<offTurns, heard>>

\* What the await of a call does to the calls in progress when it settles
\* with resp: the call runs on
Resuming(t, resp) ==
  /\ turns' = [turns EXCEPT
                ![t] = Resumed(handler, turns[t], ToolMessagesOf(turns, t),
                               resp)]
  /\ heard' = [heard EXCEPT ![t] = Append(@, resp)]

Resume(t, resp) == Resuming(t, resp) /\ UNCHANGED offTurns

\* await callLocalChat(firstPayload) of turn t settles
HearsFirst(t) ==
  /\ turns[t].pc = "awaitFirst"
  /\ \E resp \in FirstResponsesOf(t) : Resume(t, resp)

\* await runWebSearch(query, maxResults) of turn t settles
HearsSearch(t) ==
  /\ turns[t].pc = "awaitSearch"
  /\ \E resp \in ProviderResponsesOf(t) : Resume(t, resp)

\* await callLocalChat(secondPayload) of turn t settles
HearsSecond(t) ==
  /\ turns[t].pc = "awaitSecond"
  /\ \E resp \in SecondResponsesOf(t) : Resume(t, resp)

TurnHearsFirst == \E t \in TurnIds : HearsFirst(t)

TurnHearsSearch == \E t \in TurnIds : HearsSearch(t)

TurnHearsSecond == \E t \in TurnIds : HearsSecond(t)

\* What the outbound call that turn t waits for may answer
ResponsesFor(t) ==
  CASE turns[t].pc = "awaitFirst" -> FirstResponsesOf(t)
    [] turns[t].pc = "awaitSearch" -> ProviderResponsesOf(t)
    [] turns[t].pc = "awaitSecond" -> SecondResponsesOf(t)
    [] OTHER -> {}

\* The outbound call turn t waits for returns or fails: the step of
\* HearsFirst(t), HearsSearch(t) or HearsSecond(t), as it acts on cvars
Settles(t) ==
  \/ \E resp \in ResponsesFor(t) : resp.status # "ok" /\ Resuming(t, resp)
  \/ \E resp \in ResponsesFor(t) : resp.status = "ok" /\ Resuming(t, resp)

InitTurns ==
  /\ SearchIdle({"key"}, {"http://serper"})
  /\ handler \in {"route", "legacy"}
  /\ TurnIdle
  /\ TurnsIdle
  /\ StreamIdle
  /\ PanelIdle

NextTurns ==
  \/ TurnPosts
  \/ TurnHearsFirst
  \/ TurnHearsSearch
  \/ TurnHearsSecond

SpecTurns == InitTurns /\ [][NextTurns]_vars

\* The turns when every outbound call eventually returns or fails
SpecTurnsLive ==
  InitTurns /\ [][NextTurns]_vars /\ \A t \in TurnIds : WF_cvars(Settles(t))

(***************************************************************************)
(* The bytes of the answer stream, and the loop of the client that reads   *)
(* them (LocalChatPanel.handleSubmit).  Texts are strings of one-byte      *)
(* characters.                                                             *)
(***************************************************************************)
MaxText == 1

\* The characters of the answers: a letter, a space, a line feed, a double
\* quote and a backslash
Alphabet == {"a", " ", "\n", "\"", "\\"}

RECURSIVE TextsOfLen(_)
TextsOfLen(n) ==
  IF n = 0 THEN {""}
  ELSE {t \o c : t \in TextsOfLen(n - 1), c \in Alphabet}

\* The final answers: every text of at most MaxText characters, and texts
\* that look like parts of the framing
AnswerTexts ==
  UNION {TextsOfLen(n) : n \in 0..MaxText}
  \cup {"[DONE]", "data: [DONE]\n\ndata: a", "a\n\na", "\\n", "\"}"}

\* The i-th character of a text
Char(text, i) == SubSeq(text, i, i)

\* JSON.stringify of one character of a string
Escape(c) ==
  CASE c = "\"" -> "\\\""
    [] c = "\\" -> "\\\\"
    [] c = "\n" -> "\\n"
    [] OTHER -> c

RECURSIVE Escaped(_, _)
Escaped(text, i) ==
  IF i > Len(text) THEN "" ELSE Escape(Char(text, i)) \o Escaped(text, i + 1)

\* Variant of JSONStringifyString that leaves every character as it is.
JSONStringifyStringRaw(text) == "\"" \o text \o "\""

\* JSON.stringify of a string
JSONStringifyString(text) == "\"" \o Escaped(text, 1) \o "\""

ChunkPrefix == "{\"choices\":[{\"delta\":{\"content\":"

ChunkSuffix == "}}]}"

\* JSON.stringify({choices: [{delta: {content: finalContent}}]})
ChunkOf(text) == ChunkPrefix \o JSONStringifyString(text) \o ChunkSuffix

\* enqueue(`data: ${chunk}\n\n`) and enqueue("data: [DONE]\n\n")
Serialized(frame) ==
  IF frame.kind = "data" THEN "data: " \o ChunkOf(frame.content) \o "\n\n"
  ELSE "data: [DONE]\n\n"

RECURSIVE Wire(_, _)
Wire(fs, k) ==
  IF k > Len(fs) THEN "" ELSE Serialized(fs[k]) \o Wire(fs, k + 1)

\* The bytes the stream of the answer carries
ServerBytes(text) == Wire(Encode(text), 1)

\* buffer.split("\n")
RECURSIVE Split(_)
Split(text) ==
  LET feeds == {i \in 1..Len(text) : Char(text, i) = "\n"}
  IN  IF feeds = {} THEN <<text>>
      ELSE LET i == CHOOSE f \in feeds : \A g \in feeds : f <= g
           IN  <<SubSeq(text, 1, i - 1)>>
               \o Split(SubSeq(text, i + 1, Len(text)))

WhiteSpace == {" ", "\n", "\t", "\r"}

\* String.prototype.trim
RECURSIVE Trim(_)
Trim(text) ==
  IF text = "" THEN ""
  ELSE IF Char(text, 1) \in WhiteSpace THEN Trim(SubSeq(text, 2, Len(text)))
  ELSE IF Char(text, Len(text)) \in WhiteSpace
       THEN Trim(SubSeq(text, 1, Len(text) - 1))
  ELSE text

StartsWith(text, p) == Len(text) >= Len(p) /\ SubSeq(text, 1, Len(p)) = p

EndsWith(text, p) ==
  Len(text) >= Len(p) /\ SubSeq(text, Len(text) - Len(p) + 1, Len(text)) = p

\* JSON.parse of the inside of a string literal from character i on:
\* ok |-> FALSE where JSON.parse throws
RECURSIVE Unescaped(_, _)
Unescaped(lit, i) ==
  IF i > Len(lit) THEN [ok |-> TRUE, text |-> ""]
  ELSE IF Char(lit, i) \in {"\"", "\n"} THEN [ok |-> FALSE, text |-> ""]
  ELSE IF Char(lit, i) = "\\"
       THEN IF i = Len(lit) \/ Char(lit, i + 1) \notin {"\"", "\\", "n"}
            THEN [ok |-> FALSE, text |-> ""]
            ELSE LET rest == Unescaped(lit, i + 2)
                     c == IF Char(lit, i + 1) = "n" THEN "\n"
                          ELSE Char(lit, i + 1)
                 IN  [ok |-> rest.ok, text |-> c \o rest.text]
  ELSE LET rest == Unescaped(lit, i + 1)
       IN  [ok |-> rest.ok, text |-> Char(lit, i) \o rest.text]

\* JSON.parse(data) and parsed.choices?.[0]?.delta?.content ?? "", for the
\* texts a line of the stream can be: an object of the shape of ChunkOf
\* with a string literal as content, or a text JSON.parse rejects
DeltaOf(data) ==
  IF /\ StartsWith(data, ChunkPrefix \o "\"")
     /\ EndsWith(data, "\"" \o ChunkSuffix)
     /\ Len(data) >= Len(ChunkPrefix) + Len(ChunkSuffix) + 2
  THEN Unescaped(SubSeq(data, Len(ChunkPrefix) + 2,
                        Len(data) - Len(ChunkSuffix) - 1), 1)
  ELSE [ok |-> FALSE, text |-> ""]

\* for (const rawLine of lines): the content of the assistant message
\* after the lines from the i-th on, and whether [DONE] was among them
RECURSIVE AfterLines(_, _, _)
AfterLines(lines, i, text) ==
  IF i > Len(lines) THEN [content |-> text, done |-> FALSE]
  ELSE LET line == Trim(lines[i])
           data == Trim(SubSeq(line, 6, Len(line)))
       IN  IF line = "" \/ ~StartsWith(line, "data:")
           THEN AfterLines(lines, i + 1, text)
           ELSE IF data = "[DONE]" THEN [content |-> text, done |-> TRUE]
           ELSE IF DeltaOf(data).ok
                THEN AfterLines(lines, i + 1, text \o DeltaOf(data).text)
                ELSE AfterLines(lines, i + 1, text)

\* The stream that reaches the client: the bytes of the server, or what
\* is left of them when the connection ends before the [DONE] frame
WiresOf(text) ==
  {ServerBytes(text),
   SubSeq(ServerBytes(text), 1, Len(ServerBytes(text)) - 14)}

\* reader.read() resolves with the next n bytes and the loop body runs
ReadChunk ==
  /\ ~done
  /\ delivered < Len(wire)
  /\ \E n \in 1..(Len(wire) - delivered) :
       LET value == SubSeq(wire, delivered + 1, delivered + n)
           lines == Split(buffer \o value)
           after == AfterLines(SubSeq(lines, 1, Len(lines) - 1), 1, content)
       IN  /\ delivered' = delivered + n
           /\ buffer' = lines[Len(lines)]
           /\ content' = after.content
           /\ done' = after.done
  /\ UNCHANGED <<offStream, wAnswer, wire>>

\* reader.read() resolves with done: true at the end of the stream
ReadEnd ==
  /\ ~done
  /\ delivered = Len(wire)
  /\ done' = TRUE
  /\ UNCHANGED <<offStream, wAnswer, wire, delivered, buffer, content>>

InitStream ==
  /\ SearchIdle({"key"}, {"http://serper"})
  /\ handler = "route"
  /\ TurnIdle
  /\ TurnsIdle
  /\ PanelIdle
  /\ \E text \in AnswerTexts :
       /\ wAnswer = text
       /\ wire \in WiresOf(text)
  /\ delivered = 0
  /\ buffer = ""
  /\ done = FALSE
  /\ content = ""

NextStream ==
  \/ ReadChunk
  \/ ReadEnd

SpecStream == InitStream /\ [][NextStream]_vars

(***************************************************************************)
(* The chat panel (LocalChatPanel, route.ts:332-745): the state hooks, the *)
(* event handlers and the handleSubmit calls in flight.  A handler runs to *)
(* its first await in one step; React commits the state updates of an      *)
(* event before the next event is handled, so that a handler reads the     *)
(* committed state.  crypto.randomUUID() never returns the same id twice:  *)
(* ids are numbered in the order of issue, and the ids of stored messages  *)
(* are negative.  The flag isFlashing only selects a background colour and *)
(* is left out.                                                            *)
(***************************************************************************)
\* Latest time new Date() returns, and most transcripts kept while the
\* panel sends requests, in the model.
MaxChats == 1

Inputs == {"", " ", "hi"}

\* A transcript the mount effect finds in localStorage (route.ts:361-363)
StoredTranscript ==
  [id |-> -1,
   messages |->
     <<[id |-> -1, role |-> "user", content |-> "old", imageDataUrl |-> {}],
       [id |-> -2, role |-> "assistant", content |-> "older",
        imageDataUrl |-> {}]>>]

\* What one reader.read() hands over: the deltas of its data frames, and
\* whether the [DONE] frame is among them
Chunk(ds, d) == [deltas |-> ds, done |-> d]

Streams ==
  {<<Chunk(<<"a", "b">>, FALSE)>>,
   <<Chunk(<<"a">>, FALSE), Chunk(<<"b">>, TRUE)>>}

\* How fetch("/api/chat") settles: it rejects, or resolves with a response;
\* the body stream of a response without a [DONE] frame ends, or breaks
\* after its chunks
PanelResponses ==
  {[throws |-> TRUE, ok |-> FALSE, hasBody |-> FALSE, text |-> "",
    statusText |-> "", chunks |-> <<>>, breaks |-> FALSE],
   [throws |-> FALSE, ok |-> FALSE, hasBody |-> TRUE, text |-> "",
    statusText |-> "Bad Gateway", chunks |-> <<>>, breaks |-> FALSE]}
  \cup
  UNION {{[throws |-> FALSE, ok |-> TRUE, hasBody |-> TRUE, text |-> "",
           statusText |-> "OK", chunks |-> c, breaks |-> b] :
            b \in IF c[Len(c)].done THEN {FALSE} ELSE BOOLEAN} :
         c \in Streams}

\* Variant of AppendDelta that appends to the last message of the list.
AppendDeltaToLast(ms, id, delta) ==
  [i \in DOMAIN ms |->
     IF i = Len(ms) THEN [ms[i] EXCEPT !.content = @ \o delta] ELSE ms[i]]

\* current.map((m) => m.id === assistantId ? {...m, content: ...} : m)
AppendDelta(ms, id, delta) ==
  [i \in DOMAIN ms |->
     IF ms[i].id = id THEN [ms[i] EXCEPT !.content = @ \o delta] ELSE ms[i]]

\* The messages after the deltas ds of one chunk, from the i-th on
RECURSIVE AfterDeltas(_, _, _, _)
AfterDeltas(ms, id, ds, i) ==
  IF i > Len(ds) THEN ms
  ELSE AfterDeltas(AppendDelta(ms, id, ds[i]), id, ds, i + 1)

\* A handleSubmit call after its finally block
Returned(l) == [l EXCEPT !.pc = "returned", !.response = {}, !.left = <<>>]

\* Variant of HandleSubmit without the isSending guard.
HandleSubmitReentrant ==
  LET trimmed == Trim(panel.input)
      k == fetched + 1
      userMessage == [id |-> issued + 1, role |-> "user",
                      content |-> trimmed,
                      imageDataUrl |-> panel.pendingImage]
      assistantId == issued + 2
  IN  /\ k <= MaxSubmits
      /\ IF trimmed = "" /\ ~Truthy(panel.pendingImage)
         THEN UNCHANGED uvars
         ELSE /\ panel' =
                   [panel EXCEPT
                      !.messages = @ \o
                        <<userMessage,
                          [id |-> assistantId, role |-> "assistant",
                           content |-> "", imageDataUrl |-> {}]>>,
                      !.input = "", !.pendingImage = {},
                      !.isSending = TRUE, !.error = {}]
              /\ fetched' = fetched + 1
              /\ submits' = [submits EXCEPT
                   ![k] = [NoSubmit EXCEPT !.pc = "awaitFetch",
                                           !.assistantId = assistantId]]
              /\ issued' = issued + 2
              /\ now' = now
      /\ UNCHANGED offPanel

\* handleSubmit up to `await fetch("/api/chat", ...)` (route.ts:418-481)
HandleSubmit ==
  LET trimmed == Trim(panel.input)
      k == fetched + 1
      userMessage == [id |-> issued + 1, role |-> "user",
                      content |-> trimmed,
                      imageDataUrl |-> panel.pendingImage]
      assistantId == issued + 2
  IN  /\ k <= MaxSubmits
      /\ IF (trimmed = "" /\ ~Truthy(panel.pendingImage)) \/ panel.isSending
         THEN UNCHANGED uvars
         ELSE /\ panel' =
                   [panel EXCEPT
                      !.messages = @ \o
                        <<userMessage,
                          [id |-> assistantId, role |-> "assistant",
                           content |-> "", imageDataUrl |-> {}]>>,
                      !.input = "", !.pendingImage = {},
                      !.isSending = TRUE, !.error = {}]
              /\ fetched' = fetched + 1
              /\ submits' = [submits EXCEPT
                   ![k] = [NoSubmit EXCEPT !.pc = "awaitFetch",
                                           !.assistantId = assistantId]]
              /\ issued' = issued + 2
              /\ now' = now
      /\ UNCHANGED offPanel

\* `await fetch(...)` settles (route.ts:453-492): the catch and finally
\* blocks when it rejects; the await of response.text() when the response
\* is not ok or has no body; the first reader.read() otherwise
FetchSettles(k, resp) ==
  LET l == submits[k]
  IN  /\ l.pc = "awaitFetch"
      /\ IF resp.throws
         THEN /\ panel' = [panel EXCEPT
                             !.error = {"Erro ao falar com o modelo local."},
                             !.isSending = FALSE]
              /\ submits' = [submits EXCEPT ![k] = Returned(l)]
         ELSE /\ panel' = panel
              /\ submits' = [submits EXCEPT
                   ![k] = [l EXCEPT
                             !.pc = IF ~resp.ok \/ ~resp.hasBody
                                    THEN "awaitText" ELSE "awaitRead",
                             !.response = {resp},
                             !.left = resp.chunks]]
      /\ UNCHANGED <<fetched, issued, now, offPanel>>

\* `await response.text().catch(() => "")` settles (route.ts:484-486, 535)
TextSettles(k) ==
  LET l == submits[k]
      resp == The(l.response)
      shown == IF resp.text # "" THEN resp.text
               ELSE IF resp.statusText # "" THEN resp.statusText
               ELSE "Request failed"
  IN  /\ l.pc = "awaitText"
      /\ panel' = [panel EXCEPT !.error = {shown}, !.isSending = FALSE]
      /\ submits' = [submits EXCEPT ![k] = Returned(l)]
      /\ UNCHANGED <<fetched, issued, now, offPanel>>

\* `await reader.read()` settles and the loop body runs (route.ts:494-536):
\* with a chunk, with the end of the stream, or with a rejection
ReadSettles(k) ==
  LET l == submits[k]
  IN  /\ l.pc = "awaitRead"
      /\ CASE l.left # <<>> ->
                LET chunk == Head(l.left)
                    ms == AfterDeltas(panel.messages, l.assistantId,
                                      chunk.deltas, 1)
                IN  /\ panel' = [panel EXCEPT
                          !.messages = ms,
                          !.isSending = IF chunk.done THEN FALSE ELSE @]
                    /\ submits' = [submits EXCEPT
                          ![k] = IF chunk.done THEN Returned(l)
                                 ELSE [l EXCEPT !.left = Tail(@)]]
           [] l.left = <<>> /\ The(l.response).breaks ->
                /\ panel' = [panel EXCEPT
                      !.error = {"Erro ao falar com o modelo local."},
                      !.isSending = FALSE]
                /\ submits' = [submits EXCEPT ![k] = Returned(l)]
           [] OTHER ->
                /\ panel' = [panel EXCEPT !.isSending = FALSE]
                /\ submits' = [submits EXCEPT ![k] = Returned(l)]
      /\ UNCHANGED <<fetched, issued, now, offPanel>>

\* Variant of HandleNewChat that keeps every transcript.
HandleNewChatKeepsAll ==
  /\ ~(panel.isSending
       \/ (panel.messages = <<>> /\ panel.input = ""
           /\ ~Truthy(panel.pendingImage)))
  /\ IF Len(panel.messages) > 0
     THEN \E createdAt \in {now, now + 1} :
            /\ createdAt <= MaxChats
            /\ now' = createdAt
            /\ panel' = [panel EXCEPT
                 !.history = <<[id |-> createdAt,
                                messages |-> panel.messages]>> \o @,
                 !.messages = <<>>, !.input = "", !.pendingImage = {},
                 !.error = {}]
     ELSE /\ now' = now
          /\ panel' = [panel EXCEPT !.messages = <<>>, !.input = "",
                                    !.pendingImage = {}, !.error = {}]
  /\ UNCHANGED <<submits, fetched, issued, offPanel>>

\* handleNewChat (route.ts:381-394), behind its button (route.ts:692-697)
HandleNewChat ==
  /\ ~(panel.isSending
       \/ (panel.messages = <<>> /\ panel.input = ""
           /\ ~Truthy(panel.pendingImage)))
  /\ IF Len(panel.messages) > 0
     THEN \E createdAt \in {now, now + 1} :
            /\ createdAt <= MaxChats
            /\ now' = createdAt
            /\ panel' = [panel EXCEPT
                 !.history = Slice({<<[id |-> createdAt,
                                       messages |-> panel.messages]>>
                                    \o @}, 20),
                 !.messages = <<>>, !.input = "", !.pendingImage = {},
                 !.error = {}]
     ELSE /\ now' = now
          /\ panel' = [panel EXCEPT !.messages = <<>>, !.input = "",
                                    !.pendingImage = {}, !.error = {}]
  /\ UNCHANGED <<submits, fetched, issued, offPanel>>

\* A click on the i-th transcript of the history (route.ts:613-618)
SelectTranscript(i) ==
  /\ i \in DOMAIN panel.history
  /\ panel' = [panel EXCEPT !.messages = panel.history[i].messages,
                            !.input = "", !.pendingImage = {},
                            !.error = {}]
  /\ UNCHANGED <<submits, fetched, issued, now, offPanel>>

\* A click on `apagar` of the i-th transcript (route.ts:632-637)
DeleteTranscript(i) ==
  /\ i \in DOMAIN panel.history
  /\ panel' = [panel EXCEPT
       !.history = SelectSeq(@, LAMBDA item : item.id # panel.history[i].id)]
  /\ UNCHANGED <<submits, fetched, issued, now, offPanel>>

\* The text field changes (route.ts:707)
InputChange(v) ==
  /\ v # panel.input
  /\ panel' = [panel EXCEPT !.input = v]
  /\ UNCHANGED <<submits, fetched, issued, now, offPanel>>

\* handleImageChange without a file (route.ts:402-406), and the button
\* `Remover imagem` (route.ts:682)
RemoveImage ==
  /\ Truthy(panel.pendingImage)
  /\ panel' = [panel EXCEPT !.pendingImage = {}]
  /\ UNCHANGED <<submits, fetched, issued, now, offPanel>>

\* reader.onload of a FileReader that handleImageChange started for a file
\* (route.ts:408-415); the read takes any time
ImageLoads ==
  /\ panel' = [panel EXCEPT !.pendingImage = {"data:image/png;base64,AA"}]
  /\ panel' # panel
  /\ UNCHANGED <<submits, fetched, issued, now, offPanel>>

\* The pending calls of a handleSubmit call settle
SubmitSettles(k) ==
  \/ \E resp \in PanelResponses : FetchSettles(k, resp)
  \/ TextSettles(k)
  \/ ReadSettles(k)

InitPanel ==
  /\ SearchIdle({"key"}, {"http://serper"})
  /\ handler = "route"
  /\ TurnIdle
  /\ TurnsIdle
  /\ StreamIdle
  /\ panel \in {NewPanel(<<>>), NewPanel(<<StoredTranscript>>)}
  /\ submits = [k \in SubmitIds |-> NoSubmit]
  /\ fetched = 0
  /\ issued = 0
  /\ now = 0

NextPanel ==
  \/ HandleSubmit
  \/ \E k \in SubmitIds : SubmitSettles(k)
  \/ /\ Len(panel.messages) > 0 => Len(panel.history) < MaxChats
     /\ HandleNewChat
  \/ \E i \in 1..MaxChats : SelectTranscript(i)
  \/ \E i \in 1..MaxChats : DeleteTranscript(i)
  \/ \E v \in Inputs : InputChange(v)
  \/ RemoveImage
  \/ ImageLoads

SpecPanel == InitPanel /\ [][NextPanel]_vars

\* The panel when every fetch and every read of a body eventually settles
SpecPanelLive ==
  /\ InitPanel
  /\ [][NextPanel]_vars
  /\ \A k \in SubmitIds : WF_vars(SubmitSettles(k))

(***************************************************************************)
(* The history of the panel on its own: New chat, the clicks on the        *)
(* transcripts and the input, from a panel whose history is empty.  The    *)
(* conversation on screen is none, the one the mount effect found in       *)
(* localStorage (route.ts:355-357), or an exchange of this page whose      *)
(* fetch was rejected.  The history grows to the 20 transcripts that       *)
(* handleNewChat keeps.                                                    *)
(***************************************************************************)
InitHistory ==
  /\ SearchIdle({"key"}, {"http://serper"})
  /\ handler = "route"
  /\ TurnIdle
  /\ TurnsIdle
  /\ StreamIdle
  /\ now = 0
  /\ \/ /\ panel \in {NewPanel(<<>>),
                      [NewPanel(<<>>) EXCEPT
                         !.messages = StoredTranscript.messages]}
        /\ submits = [k \in SubmitIds |-> NoSubmit]
        /\ fetched = 0
        /\ issued = 0
     \/ /\ panel =
             [NewPanel(<<>>) EXCEPT
                !.messages =
                   <<[id |-> 1, role |-> "user", content |-> "hi",
                      imageDataUrl |-> {}],
                     [id |-> 2, role |-> "assistant", content |-> "",
                      imageDataUrl |-> {}]>>,
                !.error = {"Erro ao falar com o modelo local."}]
        /\ submits = [k \in SubmitIds |->
                        IF k = 1
                        THEN Returned([NoSubmit EXCEPT !.assistantId = 2])
                        ELSE NoSubmit]
        /\ fetched = 1
        /\ issued = 2

NextHistory ==
  \/ HandleNewChat
  \/ \E i \in DOMAIN panel.history : SelectTranscript(i)
  \/ \E i \in DOMAIN panel.history : DeleteTranscript(i)
  \/ \E v \in Inputs : InputChange(v)
  \/ RemoveImage
  \/ ImageLoads

SpecHistory == InitHistory /\ [][NextHistory]_vars

(***************************************************************************)
(* Vocabulary of the claims                                                *)
(***************************************************************************)
\* The text the stream carries: the content of its data frames.
StreamedText ==
  LET data == SelectSeq(frames, LAMBDA f : f.kind = "data")
  IN  IF data = <<>> THEN "" ELSE data[1].content

\* The first inference call returned a message without tool-call requests.
NoToolCallsTurn ==
  /\ Len(answered) >= 1
  /\ answered[1].status = "ok"
  /\ (~firstMessage.tool_calls.isArray \/ firstMessage.tool_calls.items = <<>>)

\* The second payload was handed to callLocalChat: phase 2 has begun.
Phase2Begun == Len(sent) = 2

IsToolResult(m) == "tool_call_id" \in DOMAIN m

\* The tool-result messages of the phase-2 request.
ToolResultsSent == SelectSeq(sent[2].messages, IsToolResult)

\* The accepted subset as the specification words it: type "function", name
\* web_search, decodable arguments, non-empty query.
InAcceptedSubset(call) ==
  /\ call.present
  /\ call.type = "function"
  /\ call.name = {"web_search"}
  /\ call.arguments # {}
  /\ JSONParse(The(call.arguments)).ok
  /\ JSONParse(The(call.arguments)).query \notin {{}, {""}}

\* Recognized tool name and non-empty required argument, whatever the type.
RecognizedWithQuery(call) ==
  /\ call.present
  /\ call.name = {"web_search"}
  /\ call.arguments # {}
  /\ JSONParse(The(call.arguments)).ok
  /\ JSONParse(The(call.arguments)).query \notin {{}, {""}}

ResultsFor(call) ==
  Cardinality({k \in 1..Len(toolMessages) :
                 toolMessages[k].tool_call_id = call.id})

\* The arguments of the call are present and JSON.parse rejects them.
Unparsable(call) ==
  call.present /\ call.arguments # {} /\ ~JSONParse(The(call.arguments)).ok

(***************************************************************************)
(* Claims                                                                  *)
(***************************************************************************)
\* C1: when the phase-1 message carries no tool-call request (tool_calls
\* absent, not an array, or empty), the answer streamed to the client is the
\* phase-1 content verbatim (the empty text when the content is null), no
\* search is made and no second inference call is made.
C1_DirectAnswerVerbatim ==
  NoToolCallsTurn =>
    /\ status = 200
    /\ finalContent =
         (IF firstMessage.content = {} THEN ""
          ELSE CHOOSE c \in firstMessage.content : TRUE)
    /\ StreamedText = finalContent
    /\ searchLog = <<>>
    /\ searched = <<>>
    /\ Len(sent) = 1

C1_Witness ==
  /\ NoToolCallsTurn
  /\ firstMessage.content = {"A1"}
  /\ firstMessage.tool_calls.isArray
  /\ pc = "done"

\* C2: the tool-result messages handed to phase 2 keep the order of the
\* requests, are never more than the requests, and are exactly one per
\* request of the accepted subset, carrying its id, and none for the others.
C2_ToolResultsAreAcceptedSubset ==
  Phase2Begun =>
    LET accepted == SelectSeq(toolCalls, InAcceptedSubset)
    IN  /\ Len(ToolResultsSent) <= Len(toolCalls)
        /\ Len(ToolResultsSent) = Len(accepted)
        /\ \A k \in 1..Len(accepted) :
             ToolResultsSent[k].tool_call_id = accepted[k].id

C2_Witness ==
  /\ Phase2Begun
  /\ Len(toolCalls) = 2
  /\ Len(ToolResultsSent) = 1
  /\ ToolResultsSent[1].tool_call_id = 2

\* C3 as stated: every request with a recognized tool name and a non-empty
\* required argument has exactly one result when phase 2 begins, and no
\* other request ever has one.
C3_AsStated ==
  /\ \A i \in 1..Len(toolCalls) :
       ~RecognizedWithQuery(toolCalls[i]) => ResultsFor(toolCalls[i]) = 0
  /\ Phase2Begun =>
       \A i \in 1..Len(toolCalls) :
         RecognizedWithQuery(toolCalls[i]) => ResultsFor(toolCalls[i]) = 1

\* C3 amended: every request of type "function" with a recognized tool name
\* and a non-empty required argument has exactly one result when phase 2
\* begins and at most one before; no other request ever has one, and every
\* result carries the id of a request.
C3_OneResultPerAcceptedRequest ==
  /\ \A i \in 1..Len(toolCalls) :
       IF InAcceptedSubset(toolCalls[i])
       THEN /\ ResultsFor(toolCalls[i]) <= 1
            /\ Phase2Begun => ResultsFor(toolCalls[i]) = 1
       ELSE ResultsFor(toolCalls[i]) = 0
  /\ \A k \in 1..Len(toolMessages) :
       \E i \in 1..Len(toolCalls) :
         toolMessages[k].tool_call_id = toolCalls[i].id

C3_Witness ==
  /\ Phase2Begun
  /\ \E i, j \in 1..Len(toolCalls) :
       /\ InAcceptedSubset(toolCalls[i])
       /\ ResultsFor(toolCalls[i]) = 1
       /\ RecognizedWithQuery(toolCalls[j])
       /\ toolCalls[j].type # "function"
       /\ ResultsFor(toolCalls[j]) = 0

\* C4 as stated: the second inference call is made only when at least one
\* tool was executed in the turn; otherwise the phase-1 answer is final.
C4_AsStated ==
  /\ Phase2Begun => Len(searchLog) >= 1
  /\ (status = 200 /\ Len(searchLog) = 0) =>
       finalContent =
         (IF firstMessage.content = {} THEN ""
          ELSE CHOOSE c \in firstMessage.content : TRUE)

\* C4 amended: the second inference call is made only when phase 1 returned
\* at least one tool-call request, whether or not any tool was executed; in
\* a turn whose phase-1 message carries none, the phase-1 answer is final,
\* and a turn that answers after tool-call requests made the second call.
C4_Phase2OnlyAfterToolCallRequests ==
  /\ Phase2Begun => Len(toolCalls) >= 1
  /\ (status = 200 /\ Len(toolCalls) = 0) =>
       /\ ~Phase2Begun
       /\ finalContent =
            (IF firstMessage.content = {} THEN ""
             ELSE CHOOSE c \in firstMessage.content : TRUE)
  /\ (status = 200 /\ Len(toolCalls) >= 1) => Phase2Begun

C4_Witness ==
  /\ Phase2Begun
  /\ Len(searchLog) = 0
  /\ status = 200
  /\ firstMessage.content = {"A1"}
  /\ finalContent = "A2"

\* C5: when every tool call of phase 1 carries arguments that cannot be
\* parsed, no tool result is produced, no search is made, the second call
\* is made with no tool-result message, and the answer streamed is the
\* phase-2 content.
C5_UnparsableArgumentsStillRunPhase2 ==
  (/\ Len(toolCalls) >= 1
   /\ \A i \in 1..Len(toolCalls) : Unparsable(toolCalls[i])) =>
    /\ toolMessages = <<>>
    /\ searchLog = <<>>
    /\ Phase2Begun
    /\ ToolResultsSent = <<>>
    /\ failure \notin {"type_error", "search"}
    /\ status = 200 =>
         /\ finalContent =
              (IF secondMessage.content = {} THEN ""
               ELSE CHOOSE c \in secondMessage.content : TRUE)
         /\ StreamedText = finalContent

C5_Witness ==
  /\ Len(toolCalls) >= 1
  /\ \A i \in 1..Len(toolCalls) : Unparsable(toolCalls[i])
  /\ status = 200
  /\ finalContent = "A2"

\* The sequence s holds the message m.
Holds(s, m) == \E k \in 1..Len(s) : DOMAIN s[k] = DOMAIN m /\ s[k] = m

\* C6: the phase-1 request begins with the phase-1 system message and the
\* phase-2 request with the phase-2 system message; neither request holds
\* the system message of the other phase.
C6_SystemMessagesSwapped ==
  /\ Len(sent) >= 1 =>
       /\ sent[1].messages[1] = SYSTEM_MESSAGE
       /\ ~Holds(sent[1].messages, SECOND_SYSTEM_MESSAGE)
  /\ Phase2Begun =>
       /\ sent[2].messages[1] = SECOND_SYSTEM_MESSAGE
       /\ ~Holds(sent[2].messages, SYSTEM_MESSAGE)

\* C7: the phase-2 message sequence is the phase-2 system message, then the
\* client conversation, then the tool results in execution order, and the
\* phase-1 assistant message is not part of it.
C7_Phase2Sequence ==
  Phase2Begun =>
    /\ sent[2].messages = <<SECOND_SYSTEM_MESSAGE>> \o messages \o toolMessages
    /\ ~Holds(sent[2].messages, firstMessage)

\* An inference call failed by a non-success status or an unreachable backend.
CallFailed(o) == o.status # "ok"

\* The backend answered with a success status and a body that is no JSON,
\* or a JSON body without choices[0].message.
MalformedBody(o) == o.status = "ok" /\ (~o.json \/ ~o.hasMessage)

\* C8 as stated: a failed inference call at either phase, a malformed
\* response body included, ends the turn with the error response and
\* without any stream frame.
C8_AsStated ==
  \A k \in 1..Len(answered) :
    (CallFailed(answered[k]) \/ MalformedBody(answered[k])) =>
      /\ status = 500
      /\ respBody = ERROR_BODY
      /\ frames = <<>>

\* C8 amended: an inference call that fails by a non-success status or an
\* unreachable backend, at either phase, ends the turn with the error
\* response and without any stream frame; a malformed body under a success
\* status does not: it is read as a message without content and tool calls,
\* and the turn ends with a success stream that carries only [DONE].
C8_CallFailureAborts ==
  \A k \in 1..Len(answered) :
    /\ CallFailed(answered[k]) =>
         /\ status = 500
         /\ respBody = ERROR_BODY
         /\ frames = <<>>
         /\ ~closed
         /\ k = Len(answered)
    /\ MalformedBody(answered[k]) =>
         /\ status = 200
         /\ respBody = "stream"
         /\ finalContent = ""
         /\ frames = <<DoneFrame>>
         /\ k = Len(answered)

C8_Witness ==
  /\ Len(answered) = 2
  /\ answered[2].status = "error"
  /\ Len(searched) >= 1
  /\ status = 500

C8_WitnessMalformed ==
  /\ Len(answered) = 2
  /\ ~answered[2].json
  /\ MalformedBody(answered[2])
  /\ status = 200

\* C9: when a search fails (timeout or non-success status), the turn ends
\* with the error response; no frame was sent, the stream was never closed
\* and no second inference call was made.
C9_SearchFailureAborts ==
  \A k \in 1..Len(searched) :
    searched[k] # "ok" =>
      /\ status = 500
      /\ respBody = ERROR_BODY
      /\ frames = <<>>
      /\ ~closed
      /\ Len(sent) = 1
      /\ k = Len(searched)

C9_Witness ==
  /\ Len(searched) = 2
  /\ searched[1] = "ok"
  /\ searched[2] = "timeout"
  /\ status = 500

\* The arguments of the call cannot be decoded, or decode to a value
\* without a non-empty query.
LacksQuery(call) ==
  /\ call.present
  /\ \/ call.arguments = {}
     \/ ~JSONParse(The(call.arguments)).ok
     \/ JSONParse(The(call.arguments)).query \in {{}, {""}}

\* C10: a tool call whose arguments cannot be decoded, or decode to a value
\* without a non-empty query (null included), never makes the turn fail.
C10_ArgumentErrorsAbsorbed ==
  \A i \in 1..Len(toolCalls) :
    LacksQuery(toolCalls[i]) => ~(failure = "type_error" /\ cur = i)

\* The call names a tool other than web_search.
UnknownTool(call) == call.present /\ call.name # {"web_search"}

\* C11: a tool call whose name is not web_search has no tool result, is
\* never the call a search is made for, and never fails the turn, whatever
\* its arguments; a turn whose calls all name other tools makes no search.
C11_UnknownToolsAreNoOps ==
  /\ \A i \in 1..Len(toolCalls) :
       UnknownTool(toolCalls[i]) =>
         /\ ResultsFor(toolCalls[i]) = 0
         /\ cur # i
  /\ (\A i \in 1..Len(toolCalls) : UnknownTool(toolCalls[i])) =>
       /\ searchLog = <<>>
       /\ failure \notin {"type_error", "search"}

C11_Witness ==
  /\ \E i \in 1..Len(toolCalls) :
       /\ UnknownTool(toolCalls[i])
       /\ toolCalls[i].arguments = {"null"}
  /\ status = 200

C13_FramesOfTheAnswer ==
  /\ [](status = 200 =>
          /\ closed
          /\ frames = IF finalContent = "" THEN <<DoneFrame>>
                      ELSE <<[kind |-> "data", content |-> finalContent],
                             DoneFrame>>)
  /\ [](closed => status = 200)
  /\ [][closed => (closed' /\ frames' = frames)]_vars

C13_Witness ==
  /\ status = 200
  /\ finalContent = "A2"
  /\ Len(frames) = 2
  /\ closed

C13_WitnessEmpty ==
  /\ status = 200
  /\ finalContent = ""
  /\ frames = <<DoneFrame>>

\* C14: the phase-1 request carries the tool catalog, tool choice "auto" and
\* stream false; the phase-2 request carries tool choice "none" and no
\* catalog, and after it is sent no search is made and no tool message is
\* added, whatever the phase-2 response requests.
C14_ToolSettingsOfThePhases ==
  /\ [](Len(sent) >= 1 =>
          /\ sent[1].tools = {<<WEB_SEARCH_TOOL>>}
          /\ sent[1].tool_choice = "auto"
          /\ sent[1].stream = {FALSE})
  /\ [](Phase2Begun =>
          /\ sent[2].tools = {}
          /\ sent[2].tool_choice = "none")
  /\ [][Phase2Begun =>
          /\ searchLog' = searchLog
          /\ toolMessages' = toolMessages
          /\ sent' = sent]_vars

C14_Witness ==
  /\ Len(answered) = 2
  /\ secondMessage.tool_calls.isArray
  /\ Len(secondMessage.tool_calls.items) = 1
  /\ status = 200
  /\ searchLog = <<>>

\* The max_results member of the arguments of the call ({}: absent).
RequestedCount(call) == JSONParse(CHOOSE a \in call.arguments : TRUE).max_results

\* C15: the result count the adapter passes to the gateway lies in 1..5: 3
\* when max_results is absent, 5 for a value above 5, 1 for a value below 1.
C15_ResultCountClamped ==
  /\ \A k \in 1..Len(searchLog) : searchLog[k].num \in 1..5
  /\ pc = "awaitSearch" =>
       LET asked == RequestedCount(toolCalls[cur])
           num == searchLog[Len(searchLog)].num
       IN  /\ asked = {} => num = 3
           /\ asked # {} =>
                \A n \in asked :
                  /\ n > 5 => num = 5
                  /\ n < 1 => num = 1
                  /\ n \in 1..5 => num = n

C15_Witness ==
  /\ Len(searchLog) = 2
  /\ searchLog[1].num = 1
  /\ searchLog[2].num = 5
  /\ toolCalls[1].arguments = {"{\"query\":\"q3\",\"max_results\":0}"}

C15_WitnessDefault ==
  /\ pc = "awaitSearch"
  /\ RequestedCount(toolCalls[cur]) = {}
  /\ searchLog[Len(searchLog)].num = 3


(***************************************************************************)
(* Claims about the search module                                          *)
(***************************************************************************)
\* The organic list the provider answered with (none: the empty list)
ProviderList == IF sResp.organic = {} THEN <<>> ELSE The(sResp.organic)

\* runWebSearch resolved
AdapterReturned == spc = "returned" /\ sVia = "adapter"

\* The count runWebSearch asks the gateway for: the requested one, at
\* least 1 and at most the provider's cap
ClampedCount ==
  IF sMax < 1 THEN 1
  ELSE IF sMax > SERPER_MAX_RESULTS THEN SERPER_MAX_RESULTS
  ELSE sMax

\* The first present of two provider fields, else the empty string
FirstPresent(a, b) ==
  IF a # {} THEN The(a) ELSE IF b # {} THEN The(b) ELSE ""

\* The snippet text the provider gave for an entry
ProviderSnippet(item) == FirstPresent(item.snippet, item.description)

\* C16: every snippet runWebSearch returns is the provider's snippet when
\* that is at most SEARCH_MAX_CHARS long, and otherwise its first
\* SEARCH_MAX_CHARS characters followed by "...".
C16_SnippetsTruncated ==
  AdapterReturned =>
    \A i \in 1..Len(sResult.results) :
      sResult.results[i].snippet =
        truncate({ProviderSnippet(ProviderList[i])}, SEARCH_MAX_CHARS)

\* C17: the tool result holds the first N entries of the provider's list
\* in the provider's order, N the clamped requested count, and the whole
\* list (none for an absent list) when it has at most N entries.
C17_FirstNInRankOrder ==
  AdapterReturned =>
    /\ Len(sResult.results) =
         IF Len(ProviderList) > ClampedCount THEN ClampedCount
         ELSE Len(ProviderList)
    /\ \A i \in 1..Len(sResult.results) :
         /\ sResult.results[i].title = StringOf(ProviderList[i].title)
         /\ sResult.results[i].snippet = ProviderSnippet(ProviderList[i])

C17_Witness ==
  /\ AdapterReturned
  /\ Len(ProviderList) > ClampedCount
  /\ ClampedCount = SERPER_MAX_RESULTS
  /\ Len(sResult.results) = SERPER_MAX_RESULTS

C17_WitnessFewer ==
  /\ AdapterReturned
  /\ sResp.organic = {}
  /\ sResult.results = <<>>

\* C18: every record of a tool result has exactly the fields title, url
\* and snippet; title is the provider's title, url its link or else its
\* url, snippet its snippet or else its description, and a field the
\* provider left out is the empty string.
C18_RecordsNormalized ==
  AdapterReturned =>
    \A i \in 1..Len(sResult.results) :
      LET r == sResult.results[i]
          item == ProviderList[i]
      IN  /\ DOMAIN r = {"title", "url", "snippet"}
          /\ r.title = FirstPresent(item.title, {})
          /\ r.url = FirstPresent(item.link, item.url)
          /\ r.snippet = FirstPresent(item.snippet, item.description)

C18_Witness ==
  /\ AdapterReturned
  /\ \E i \in 1..Len(sResult.results) :
       /\ ProviderList[i].link = {}
       /\ ProviderList[i].snippet = {}
       /\ sResult.results[i].url = "U"
       /\ Len(sResult.results[i].snippet) > SEARCH_MAX_CHARS
  /\ \E i \in 1..Len(sResult.results) :
       /\ ProviderList[i].title = {}
       /\ ProviderList[i].url = {}
       /\ ProviderList[i].description = {}
       /\ sResult.results[i] = [title |-> "", url |-> "", snippet |-> ""]

\* The num of the request the call in progress sent
NumSent == outbound[Len(outbound)].body.num

\* C19 as stated: whatever maxResults a caller passes to the gateway's
\* search, the num sent to the provider is in 1..SERPER_MAX_RESULTS.
C19_AsStated ==
  \A k \in 1..Len(outbound) :
    outbound[k].body.num \in 1..SERPER_MAX_RESULTS

\* C19: the gateway's search sends the maxResults it is given as num,
\* unchanged; runWebSearch clamps the requested count to
\* 1..SERPER_MAX_RESULTS before it calls search, so the num of a search
\* made through runWebSearch is in that range, a count above the cap
\* being cut to the cap and not rejected.
C19_ClampIsInTheAdapter ==
  spc # "idle" =>
    /\ sVia = "gateway" => NumSent = sMax
    /\ sVia = "adapter" =>
         /\ NumSent \in 1..SERPER_MAX_RESULTS
         /\ NumSent = ClampedCount

C19_Witness ==
  /\ spc = "returned"
  /\ sVia = "gateway"
  /\ sMax > SERPER_MAX_RESULTS
  /\ NumSent = sMax
  /\ Len(sResult.results) > SERPER_MAX_RESULTS

C19_WitnessAdapter ==
  /\ AdapterReturned
  /\ sMax > SERPER_MAX_RESULTS
  /\ NumSent = SERPER_MAX_RESULTS

\* A setting that is not set or is the empty string
Missing(setting) == setting = {} \/ setting = {""}

\* C20: with the credential or the base address missing the construction
\* of the gateway fails; a gateway that is not constructed sends nothing,
\* and every request sent carries a non-empty credential and goes to a
\* non-empty base address.
C20_FailsFastAtConstruction ==
  /\ (client.state # "unloaded" /\ (Missing(envKey) \/ Missing(envUrl)))
       => client.state = "failed"
  /\ client.state # "ready" => (outbound = <<>> /\ spc = "idle")
  /\ \A k \in 1..Len(outbound) :
       /\ outbound[k].apiKey # ""
       /\ outbound[k].url # "/search"

C20_Witness ==
  /\ client.state = "failed"
  /\ envKey = {"key"}
  /\ Missing(envUrl)
  /\ outbound = <<>>

C20_WitnessKey ==
  /\ client.state = "failed"
  /\ Missing(envKey)
  /\ envUrl = {"http://serper"}


(***************************************************************************)
(* Claims about the order of the calls of a turn                           *)
(***************************************************************************)
\* The requests of the accepted subset, in list order
AcceptedCalls == SelectSeq(toolCalls, InAcceptedSubset)

\* Calls sent and not yet answered
OutstandingInference == Len(sent) - Len(answered)

OutstandingSearch == Len(searchLog) - Len(searched)

\* C21: a turn calls the inference backend at most twice, once with the
\* phase-1 payload and once with the phase-2 payload, and the search
\* provider at most once per accepted tool call; the step in which a call
\* fails sends nothing, and nothing is sent after it.
C21_NothingIsRetried ==
  /\ [](/\ Len(sent) <= 2
        /\ Len(sent) >= 1 => sent[1].tool_choice = "auto"
        /\ Len(sent) = 2 => sent[2].tool_choice = "none"
        /\ Len(searchLog) <= Len(AcceptedCalls)
        /\ \A k \in 1..Len(searchLog) :
             searchLog[k].q =
               The(JSONParse(The(AcceptedCalls[k].arguments)).query))
  /\ [][(failure' # "none" \/ failure # "none")
          => (sent' = sent /\ searchLog' = searchLog)]_vars

C21_Witness ==
  /\ failure = "search"
  /\ Len(AcceptedCalls) = 2
  /\ Len(searchLog) = 1
  /\ searched = <<"error">>
  /\ Len(sent) = 1

C21_WitnessSecond ==
  /\ failure = "second_call"
  /\ Len(sent) = 2
  /\ Len(searchLog) = 2

\* C22: the searches of a turn are started in the list order of the
\* accepted requests, each after the one before it has completed; at most
\* one outbound call of the turn is outstanding at any time; phase 2 starts
\* when every accepted request has had its search completed.
C22_SequentialInListOrder ==
  LET accepted == AcceptedCalls
  IN  /\ OutstandingInference \in {0, 1}
      /\ OutstandingSearch \in {0, 1}
      /\ OutstandingInference + OutstandingSearch <= 1
      /\ \A k \in 1..Len(searchLog) :
           /\ k <= Len(accepted)
           /\ searchLog[k].q =
                The(JSONParse(The(accepted[k].arguments)).query)
           /\ k > 1 => (Len(searched) >= k - 1 /\ searched[k - 1] = "ok")
      /\ Phase2Begun =>
           /\ Len(searched) = Len(accepted)
           /\ Len(searchLog) = Len(accepted)
           /\ \A k \in 1..Len(searched) : searched[k] = "ok"

C22_Witness ==
  /\ pc = "awaitSearch"
  /\ Len(searchLog) = 2
  /\ searched = <<"ok">>
  /\ searchLog[1].q = "q2"
  /\ searchLog[2].q = "q1"

C22_WitnessPhase2 ==
  /\ Phase2Begun
  /\ Len(searched) = 2
  /\ OutstandingInference = 1


(***************************************************************************)
(* Claims about turns that run at the same time                            *)
(***************************************************************************)
\* The locals of a call that receives the inputs from the k-th on with no
\* other call running
RECURSIVE AloneFrom(_, _, _, _)
AloneFrom(h, l, inputs, k) ==
  IF k > Len(inputs) THEN l
  ELSE AloneFrom(h, Resumed(h, l, l.toolMessages, inputs[k]), inputs, k + 1)

\* Turn t run alone on what it received
Alone(t) == AloneFrom(handler, Started(RequestOf(t)), heard[t], 1)

\* The texts a turn may show when only its own inputs reach it
OwnAnswers(t) == {"", Tagged("A", t), Tagged("B", t)}

\* The tool-result messages of the phase-2 request of turn t
ToolResultsSentBy(t) == SelectSeq(turns[t].sent[2].messages, IsToolResult)

\* The conversation messages of the phase-2 request of turn t
UserMessagesSentBy(t) ==
  SelectSeq(turns[t].sent[2].messages,
            LAMBDA m : "role" \in DOMAIN m /\ m.role = "user")

C24_ClientMessagesFramed ==
  \A p \in 1..Len(sent) :
    LET ms == sent[p].messages
        n == Len(messages)
    IN  /\ Len(ms) >= n + 1
        /\ ms[1].role = "system"
        /\ SubSeq(ms, 2, n + 1) = messages
        /\ \A k \in (n + 2)..Len(ms) : IsToolResult(ms[k])
        /\ p = 1 => Len(ms) = n + 1

\* The place of a turn in its course
Rank(at) ==
  CASE at = "idle" -> 0
    [] at = "awaitFirst" -> 1
    [] at = "awaitSearch" -> 2
    [] at = "awaitSecond" -> 3
    [] at = "done" -> 4

\* Turn t ended with the closed success stream of its final answer
SuccessOutcome(t) ==
  /\ turns[t].status = 200
  /\ turns[t].closed
  /\ turns[t].frames =
       (IF turns[t].finalContent = "" THEN <<>>
        ELSE <<[kind |-> "data", content |-> turns[t].finalContent]>>)
       \o <<DoneFrame>>

\* Turn t ended with the non-success error response
ErrorOutcome(t) ==
  /\ turns[t].status = 500
  /\ turns[t].frames = <<>>
  /\ ~turns[t].closed

\* C25: when every outbound call eventually returns or fails, a turn that
\* began reaches Done; at Done it has exactly one outcome, the closed
\* success stream or the error response; it goes from the first call to
\* Done, or from the first call through the tool executions and the second
\* call to Done, leaving early only with the error response, and never
\* goes back: a later search is of a later request, and the second call is
\* reached only through a phase-1 message with tool-call requests.
C25_TurnReachesDoneOnce ==
  /\ \A t \in TurnIds :
       (turns[t].pc = "awaitFirst") ~> (turns[t].pc = "done")
  /\ [](\A t \in TurnIds :
          /\ turns[t].pc = "done" =>
               /\ SuccessOutcome(t) \/ ErrorOutcome(t)
               /\ ~(SuccessOutcome(t) /\ ErrorOutcome(t))
          /\ turns[t].pc # "done" =>
               /\ turns[t].status = 0
               /\ turns[t].frames = <<>>
               /\ ~turns[t].closed)
  /\ [][\A t \in TurnIds :
          /\ Rank(turns'[t].pc) >= Rank(turns[t].pc)
          /\ (turns[t].pc = "awaitSearch" /\ turns'[t].pc = "awaitSearch"
              /\ turns'[t] # turns[t])
               => turns'[t].cur > turns[t].cur
          /\ (turns[t].pc = "idle" /\ turns'[t] # turns[t])
               => turns'[t].pc = "awaitFirst"
          /\ turns'[t].pc = "awaitSecond" => Len(turns'[t].toolCalls) > 0
          /\ (turns[t].pc = "awaitSearch" /\ turns'[t].pc = "done")
               => ErrorOutcome(t)'
          /\ (turns[t].pc = "awaitSecond" /\ turns'[t] # turns[t])
               => turns'[t].pc = "done"
          /\ turns[t].pc = "done" => turns'[t] = turns[t]]_vars

C25_Witness ==
  /\ turns[1].pc = "done"
  /\ SuccessOutcome(1)
  /\ Len(turns[1].sent) = 2
  /\ Len(turns[1].toolMessages) = 2
  /\ turns[1].finalContent = Tagged("B", 1)

C25_WitnessError ==
  /\ turns[1].pc = "done"
  /\ ErrorOutcome(1)
  /\ Len(turns[1].sent) = 2


\* C27: when the search of the k-th accepted tool call fails, it is the
\* last search of the turn and only the first inference call was made;
\* once a search has failed no search and no inference call follows.
C27_NothingAfterAFailedSearch ==
  /\ [](\A k \in 1..Len(searched) :
          searched[k] # "ok" =>
            /\ Len(searched) = k
            /\ Len(searchLog) = k
            /\ Len(sent) = 1
            /\ Len(answered) = 1
            /\ toolMessages = [j \in 1..(k - 1) |-> toolMessages[j]])
  /\ [][(\E k \in 1..Len(searched) : searched[k] # "ok")
          => (searchLog' = searchLog /\ sent' = sent
              /\ searched' = searched)]_vars

C27_Witness ==
  /\ Len(AcceptedCalls) = 2
  /\ searched = <<"timeout">>
  /\ Len(searchLog) = 1
  /\ pc = "done"
  /\ status = 500

C27_WitnessSecond ==
  /\ Len(AcceptedCalls) = 2
  /\ searched = <<"ok", "error">>
  /\ Len(toolMessages) = 1
  /\ pc = "done"

\* C28: a turn whose phase-1 message carries tool-call requests and that
\* ends with an answer answers with the content of the phase-2 message, the
\* empty text when it has none, whatever the content of the phase-1
\* message; the stream carries that text.
C28_Phase1ContentNotForwarded ==
  (pc = "done" /\ status = 200 /\ Len(toolCalls) > 0) =>
    /\ finalContent =
         (IF secondMessage.content = {} THEN ""
          ELSE CHOOSE c \in secondMessage.content : TRUE)
    /\ StreamedText = finalContent
    /\ Len(answered) = 2

C28_Witness ==
  /\ pc = "done"
  /\ status = 200
  /\ Len(toolCalls) > 0
  /\ firstMessage.content = {"A1"}
  /\ secondMessage.content = {}
  /\ finalContent = ""
  /\ frames = <<DoneFrame>>

C28_WitnessText ==
  /\ pc = "done"
  /\ status = 200
  /\ Len(toolCalls) > 0
  /\ firstMessage.content = {"A1"}
  /\ finalContent = "A2"


(***************************************************************************)
(* Claims about the stream and the client that reads it                    *)
(***************************************************************************)
\* The whole stream of the server reaches the client
Intact == wire = ServerBytes(wAnswer)

\* The bytes up to the line feed that ends the [DONE] line
UpToDone == Len(wire) - 1

\* C26: whatever the final answer and however its stream is cut into
\* chunks, the client ends its loop when the line of the [DONE] frame is
\* complete and not before, the content of the assistant message is then
\* the final answer, and the client reads no more.
C26_StreamReadBackWithoutLoss ==
  /\ [](Intact =>
          /\ done <=> delivered >= UpToDone
          /\ done => content = wAnswer
          /\ content \in {"", wAnswer})
  /\ [][done => (delivered' = delivered /\ content' = content)]_vars

C26_Witness ==
  /\ Intact
  /\ done
  /\ wAnswer = "a\n\na"
  /\ content = "a\n\na"
  /\ delivered = UpToDone

C26_WitnessSplit ==
  /\ Intact
  /\ ~done
  /\ wAnswer = "\""
  /\ content = "\""
  /\ buffer = "data: [DO"

(***************************************************************************)
(* Claims about the chat panel                                             *)
(***************************************************************************)
\* The handleSubmit call k awaits its fetch or a read of the response
InFlight(k) == submits[k].pc \in {"awaitFetch", "awaitText", "awaitRead"}

\* The step is one of the read loop of the handleSubmit call k
ReadStepOf(k) == submits[k].pc = "awaitRead" /\ submits'[k] # submits[k]

\* The positions of the message list that hold the placeholder of call k
HoldersOf(k) ==
  {i \in DOMAIN panel.messages :
     panel.messages[i].id = submits[k].assistantId}

\* Message n is message m with text appended to its content
Extends(n, m) ==
  /\ n = [m EXCEPT !.content = n.content]
  /\ StartsWith(n.content, m.content)

\* C29: a message that stays in the list changes only by text appended to
\* its content, during a read of the stream of the handleSubmit call that
\* created it as its assistant placeholder; a read changes nothing else,
\* and nothing at all when the list no longer holds the placeholder.
C29_DeltasOnlyOnOwnPlaceholder ==
  [][/\ \A i \in DOMAIN panel.messages \cap DOMAIN panel'.messages :
          (/\ panel'.messages[i].id = panel.messages[i].id
           /\ panel'.messages[i] # panel.messages[i]) =>
             \E k \in SubmitIds :
               /\ ReadStepOf(k)
               /\ i \in HoldersOf(k)
               /\ panel.messages[i].role = "assistant"
               /\ Extends(panel'.messages[i], panel.messages[i])
     /\ \A k \in SubmitIds :
          ReadStepOf(k) =>
            /\ panel'.history = panel.history
            /\ Len(panel'.messages) = Len(panel.messages)
            /\ \A i \in DOMAIN panel.messages \ HoldersOf(k) :
                 panel'.messages[i] = panel.messages[i]
            /\ HoldersOf(k) = {} => panel'.messages = panel.messages
    ]_vars

C29_Witness ==
  \E k \in SubmitIds :
    /\ submits[k].pc = "awaitRead"
    /\ Len(submits[k].left) = 1
    /\ Len(The(submits[k].response).chunks) = 2
    /\ \E i \in HoldersOf(k) : panel.messages[i].content = "a"

C29_WitnessReplaced ==
  \E k \in SubmitIds :
    /\ submits[k].pc = "awaitRead"
    /\ Len(submits[k].left) = 1
    /\ Len(The(submits[k].response).chunks) = 2
    /\ HoldersOf(k) = {}
    /\ panel.messages = StoredTranscript.messages

\* handleSubmit returns at once in this state
Blocked ==
  \/ panel.isSending
  \/ Trim(panel.input) = "" /\ ~Truthy(panel.pendingImage)

\* C30: where isSending is true, or the trimmed input is empty and no image
\* is pending, no step sends a request or creates a message; isSending is
\* true exactly while a handleSubmit call awaits its fetch or a read; and
\* every call that sent a request returns, with isSending false, whether
\* the fetch threw, the response was not ok, or the stream was read.
C30_SubmitGuardedAndIsSendingReset ==
  /\ [][Blocked =>
          /\ fetched' = fetched
          /\ issued' = issued
          /\ \A i \in DOMAIN panel'.messages :
               panel'.messages[i].id <= issued]_vars
  /\ [](panel.isSending <=> \E k \in SubmitIds : InFlight(k))
  /\ [](Cardinality({k \in SubmitIds : InFlight(k)}) <= 1)
  /\ \A k \in SubmitIds :
       InFlight(k) ~> (submits[k].pc = "returned" /\ ~panel.isSending)

C30_Witness ==
  /\ panel.isSending
  /\ panel.input = "hi"
  /\ fetched = 1
  /\ submits[1].pc = "awaitRead"

C30_WitnessEmpty ==
  /\ ~panel.isSending
  /\ panel.input = " "
  /\ fetched = 0

C30_WitnessThrew ==
  /\ submits[1].pc = "returned"
  /\ submits[2].pc = "idle"
  /\ ~panel.isSending
  /\ panel.error = {"Erro ao falar com o modelo local."}

C30_WitnessNotOk ==
  /\ submits[1].pc = "returned"
  /\ submits[2].pc = "idle"
  /\ ~panel.isSending
  /\ panel.error = {"Bad Gateway"}

C30_WitnessOk ==
  /\ submits[1].pc = "returned"
  /\ submits[2].pc = "idle"
  /\ ~panel.isSending
  /\ panel.error = {}
  /\ \E i \in HoldersOf(1) : panel.messages[i].content = "ab"

(***************************************************************************)
(* Claims about the history of the panel                                   *)
(***************************************************************************)
\* No transcript of h comes before one that was created later
NewestFirst(h) == \A i, j \in DOMAIN h : i < j => h[i].id >= h[j].id

\* The step leaves the panel without conversation, input, image and error
Cleared ==
  /\ panel'.messages = <<>>
  /\ panel'.input = ""
  /\ panel'.pendingImage = {}
  /\ panel'.error = {}

\* The step puts the conversation on screen in front of the history and
\* keeps the first 20 transcripts
Archived ==
  /\ Len(panel'.history) = Min(Len(panel.history) + 1, 20)
  /\ panel'.history[1].messages = panel.messages
  /\ \A i \in 2..Len(panel'.history) :
       panel'.history[i] = panel.history[i - 1]

\* C31: from an empty history, whatever the New-chat clicks, deletions and
\* selections, the history holds at most 20 transcripts, the newest first;
\* a New chat leaves the history as it is when there is no message and
\* archives the conversation in front of it otherwise, and in both cases
\* clears messages, input, pending image and error; the history changes
\* in no other way than by an archive or a deletion.
C31_HistoryCappedNewestFirst ==
  /\ [](Len(panel.history) <= 20 /\ NewestFirst(panel.history))
  /\ [][HandleNewChat =>
          /\ Cleared
          /\ IF Len(panel.messages) > 0 THEN Archived
             ELSE panel'.history = panel.history]_vars
  /\ [][panel'.history # panel.history =>
          \/ Len(panel.messages) > 0 /\ Archived /\ Cleared
          \/ \E i \in DOMAIN panel.history :
               panel'.history =
                 SelectSeq(panel.history,
                           LAMBDA item : item.id # panel.history[i].id)]_vars

C31_Witness ==
  /\ Len(panel.history) = 20
  /\ panel.history[1].id > panel.history[20].id
  /\ panel.messages = <<>>
  /\ now = 1

C31_WitnessError ==
  /\ Len(panel.history) = 1
  /\ panel.history[1].messages[1].content = "hi"
  /\ panel.messages = <<>>
  /\ panel.error = {}
  /\ submits[1].pc = "returned"

====
